---- MODULE Spec2Model ----
(***************************************************************************)
(* The nere toolchain: the two-pass compiler (nerec), the binary container *)
(* it writes, and the stack virtual machine (nere) that loads and executes *)
(* it.  Offsets and indices are 0-based as in the Rust source; TLA+        *)
(* sequences are 1-based, so tokens[count] of the source is tokens[count+1]*)
(* here and bytes[ip] is bytes[ip + 1].                                    *)
(***************************************************************************)
EXTENDS Integers, Sequences, FiniteSets, TLC

(***************************************************************************)
(* Bounds of the input families.                                           *)
(***************************************************************************)
MaxTokens == 9      \* tokens of a brace-structured program (without Eof)
MaxRaw == 4         \* tokens of an arbitrary token sequence (without Eof)
MaxStmts == 2       \* if-statements of a branch program
MaxPool == 2        \* values of a constant pool given to the serializer

(***************************************************************************)
(* Machine integers.                                                       *)
(***************************************************************************)
I32Max == 2147483647
I32Min == -I32Max - 1

\* A decoded 8-byte quantity that does not fit TLC's 32-bit integers: larger
\* than every length of the model, which is all the code compares it with.
Huge == I32Max

AddOverflows(a, b) ==
    \/ b > 0 /\ a > I32Max - b
    \/ b < 0 /\ a < I32Min - b

\* i32 wrapping_add
AddWrap(a, b) ==
    IF ~AddOverflows(a, b) THEN a + b
    ELSE IF b > 0 THEN (a - I32Max - 1) + (b - I32Max - 1)
    ELSE (a + I32Max + 1) + (b + I32Max + 1)

SubOverflows(a, b) ==
    \/ b < 0 /\ a > I32Max + b
    \/ b > 0 /\ a < I32Min + b

\* i32 wrapping_sub
SubWrap(a, b) ==
    IF ~SubOverflows(a, b) THEN a - b
    ELSE IF b < 0 THEN (a - I32Max - 1) - (b + I32Max + 1)
    ELSE (a + I32Max + 1) - (b - I32Max - 1)

\* the low 16 bits of x * y, for x and y in 0..65535
MulLow16(x, y) == ((x % 256) * y + 256 * (((x \div 256) * y) % 256)) % 65536

\* i32 wrapping_mul, on 16-bit halves of the two's complement operands
MulWrap(a, b) ==
    LET ah == (a \div 65536) % 65536
        al == a % 65536
        bh == (b \div 65536) % 65536
        bl == b % 65536
        x == (al % 256) * bl
        y == (al \div 256) * bl
        low == x + (y % 256) * 256
        hi == ((y \div 256) + (low \div 65536) + MulLow16(ah, bl) + MulLow16(al, bh)) % 65536
    IN  (IF hi >= 32768 THEN hi - 65536 ELSE hi) * 65536 + (low % 65536)

RECURSIVE TruncDiv(_, _)
\* i32 division, rounding toward zero; b # 0 and not (a = I32Min, b = -1)
TruncDiv(a, b) ==
    IF b > 0 THEN
        LET q == a \div b
        IN  IF a < 0 /\ a % b # 0 THEN q + 1 ELSE q
    ELSE IF b = I32Min THEN (IF a = I32Min THEN 1 ELSE 0)
    ELSE LET q == TruncDiv(a, -b)
         IN  -q

DivOverflows(a, b) == a = I32Min /\ b = -1

MulOverflows(a, b) ==
    /\ a # 0
    /\ \/ DivOverflows(b, a)
       \/ DivOverflows(MulWrap(a, b), a)
       \/ TruncDiv(MulWrap(a, b), a) # b

(***************************************************************************)
(* Native-endian byte encodings (to_ne_bytes / from_ne_bytes).             *)
(***************************************************************************)
Endians == {"le", "be"}

RECURSIVE BytesLE(_, _)
\* the w low bytes of n, least significant first (two's complement)
BytesLE(n, w) ==
    IF w = 0 THEN <<>> ELSE <<n % 256>> \o BytesLE(n \div 256, w - 1)

Reverse(s) == [i \in 1..Len(s) |-> s[Len(s) + 1 - i]]

to_ne_bytes(n, w, e) == IF e = "le" THEN BytesLE(n, w) ELSE Reverse(BytesLE(n, w))

\* the bytes least significant first
ToLE(bs, e) == IF e = "le" THEN bs ELSE Reverse(bs)

\* i32::from_ne_bytes
i32_from_ne_bytes(bs, e) ==
    LET b == ToLE(bs, e)
        top == IF b[4] >= 128 THEN b[4] - 256 ELSE b[4]
    IN  b[1] + 256 * b[2] + 65536 * b[3] + 16777216 * top

\* u32::from_ne_bytes (values below 2^31; larger ones saturate)
u32_from_ne_bytes(bs, e) ==
    LET b == ToLE(bs, e)
    IN  IF b[4] >= 128 THEN Huge
        ELSE b[1] + 256 * b[2] + 65536 * b[3] + 16777216 * b[4]

\* usize::from_ne_bytes (values below 2^31; larger ones saturate)
usize_from_ne_bytes(bs, e) ==
    LET b == ToLE(bs, e)
    IN  IF \E k \in 5..8 : b[k] # 0 THEN Huge
        ELSE u32_from_ne_bytes(SubSeq(b, 1, 4), "le")

\* isize::from_ne_bytes followed by `as usize`: a negative target is a huge one
isize_from_ne_bytes(bs, e) == usize_from_ne_bytes(bs, e)

(***************************************************************************)
(* Value (nere_internal.rs).  A string is its sequence of code points.     *)
(***************************************************************************)
Int32(n) == [tag |-> "Int32", n |-> n, s |-> <<>>]
UInt32(n) == [tag |-> "UInt32", n |-> n, s |-> <<>>]
String(s) == [tag |-> "String", n |-> 0, s |-> s]

constant_type(v) ==
    CASE v.tag = "Int32" -> 0
      [] v.tag = "UInt32" -> 1
      [] v.tag = "String" -> 2

\* String::as_bytes: UTF-8 of code points below 2048
Utf8Char(c) == IF c < 128 THEN <<c>> ELSE <<192 + (c \div 64), 128 + (c % 64)>>

RECURSIVE as_bytes(_)
as_bytes(s) == IF s = <<>> THEN <<>> ELSE Utf8Char(Head(s)) \o as_bytes(Tail(s))

RECURSIVE from_utf8(_)
\* String::from_utf8: the code points, or <<-1>> for invalid UTF-8
from_utf8(bs) ==
    IF bs = <<>> THEN <<>>
    ELSE IF bs[1] < 128 THEN
        LET rest == from_utf8(Tail(bs))
        IN  IF rest = <<-1>> THEN rest ELSE <<bs[1]>> \o rest
    ELSE IF /\ bs[1] >= 194 /\ bs[1] < 224 /\ Len(bs) >= 2
            /\ bs[2] >= 128 /\ bs[2] < 192 THEN
        LET rest == from_utf8(SubSeq(bs, 3, Len(bs)))
        IN  IF rest = <<-1>> THEN rest
            ELSE <<(bs[1] - 192) * 64 + (bs[2] - 128)>> \o rest
    ELSE <<-1>>

RECURSIVE Digits(_)
Digits(n) == IF n < 10 THEN <<48 + n>> ELSE Append(Digits(n \div 10), 48 + (n % 10))

\* i32::to_string / u32::to_string, as code points
to_string(n) ==
    IF n >= 0 THEN Digits(n)
    ELSE IF n = I32Min THEN <<45>> \o Append(Digits(I32Max \div 10), 48 + (I32Max % 10) + 1)
    ELSE <<45>> \o Digits(-n)

(***************************************************************************)
(* OpCode (nere_internal.rs).                                              *)
(***************************************************************************)
OpCodes ==
    <<"Push", "Dup", "Add", "Sub", "Mul", "Div", "Lt", "Lte", "Gt", "Gte",
      "Eq", "Ne", "If", "Else", "While", "Do", "Dump", "Halt", "LBrace",
      "RBrace">>

\* an encoding that writes Lt and Lte with each other's byte
as_byte_swapped(op) ==
    CASE op = "Lt" -> 7
      [] op = "Lte" -> 6
      [] OTHER -> (CHOOSE i \in 1..Len(OpCodes) : OpCodes[i] = op) - 1

\* OpCode::as_byte
as_byte(op) ==
    CASE op = "Push" -> 0
      [] op = "Dup" -> 1
      [] op = "Add" -> 2
      [] op = "Sub" -> 3
      [] op = "Mul" -> 4
      [] op = "Div" -> 5
      [] op = "Lt" -> 6
      [] op = "Lte" -> 7
      [] op = "Gt" -> 8
      [] op = "Gte" -> 9
      [] op = "Eq" -> 10
      [] op = "Ne" -> 11
      [] op = "If" -> 12
      [] op = "Else" -> 13
      [] op = "While" -> 14
      [] op = "Do" -> 15
      [] op = "Dump" -> 16
      [] op = "Halt" -> 17
      [] op = "LBrace" -> 18
      [] op = "RBrace" -> 19

\* OpCode::from(u8); "unreachable" (a panic) for a byte above 19
OpCodeFrom(b) ==
    CASE b = 0 -> "Push"
      [] b = 1 -> "Dup"
      [] b = 2 -> "Add"
      [] b = 3 -> "Sub"
      [] b = 4 -> "Mul"
      [] b = 5 -> "Div"
      [] b = 6 -> "Lt"
      [] b = 7 -> "Lte"
      [] b = 8 -> "Gt"
      [] b = 9 -> "Gte"
      [] b = 10 -> "Eq"
      [] b = 11 -> "Ne"
      [] b = 12 -> "If"
      [] b = 13 -> "Else"
      [] b = 14 -> "While"
      [] b = 15 -> "Do"
      [] b = 16 -> "Dump"
      [] b = 17 -> "Halt"
      [] b = 18 -> "LBrace"
      [] b = 19 -> "RBrace"
      [] OTHER -> "unreachable"

(***************************************************************************)
(* Token.  typ3 is the TokenType; op and addr are the opcode and its jump  *)
(* payload of an Instruction token; value is the literal of a Value token. *)
(***************************************************************************)
NoValue == Int32(0)

Instr(op) == [typ3 |-> "Instruction", op |-> op, addr |-> -1, value |-> NoValue]
\* a jump instruction whose payload is always the start of the program
Jump_to_start(op, addr) == [typ3 |-> "Instruction", op |-> op, addr |-> 0, value |-> NoValue]

Jump(op, addr) == [typ3 |-> "Instruction", op |-> op, addr |-> addr, value |-> NoValue]
Lit(v) == [typ3 |-> "Value", op |-> "None", addr |-> -1, value |-> v]
Plain(t) == [typ3 |-> t, op |-> "None", addr |-> -1, value |-> NoValue]

LBraceTok == Plain("LBrace")
RBraceTok == Plain("RBrace")
ErrorTok == Plain("Error")
EofTok == Plain("Eof")
IfTok == Instr("If")
ElseTok == Instr("Else")
DumpTok == Instr("Dump")

IsOp(t, op) == t.typ3 = "Instruction" /\ t.op = op

(***************************************************************************)
(* Input families: the token sequences handed to the compiler.  The lexer  *)
(* ends every sequence with one Eof token.                                 *)
(***************************************************************************)
Leaves == {Lit(Int32(1)), DumpTok}

RECURSIVE Blocks(_), Items(_)
\* the single statements of exactly n tokens: a leaf, if { body },
\* if { body } else { body }
Items(n) ==
    (IF n = 1 THEN {<<l>> : l \in Leaves} ELSE {})
    \cup (IF n >= 3
          THEN {<<IfTok, LBraceTok>> \o b \o <<RBraceTok>> : b \in Blocks(n - 3)}
          ELSE {})
    \cup (IF n >= 6
          THEN UNION {{<<IfTok, LBraceTok>> \o a \o <<RBraceTok, ElseTok, LBraceTok>>
                          \o b \o <<RBraceTok>> :
                          a \in Blocks(m), b \in Blocks(n - 6 - m)} :
                      m \in 0..(n - 6)}
          ELSE {})

\* the statement sequences of exactly n tokens
Blocks(n) ==
    IF n = 0 THEN {<<>>}
    ELSE UNION {{i \o b : i \in Items(k), b \in Blocks(n - k)} : k \in 1..n}

\* brace-structured programs
StructPrograms == UNION {Blocks(n) : n \in 0..MaxTokens}

RawAlphabet ==
    {Lit(Int32(1)), DumpTok, IfTok, ElseTok, LBraceTok, RBraceTok, ErrorTok}

\* arbitrary short token sequences, malformed ones included
RawPrograms == UNION {[1..n -> RawAlphabet] : n \in 0..MaxRaw}

CondValues == {Int32(0), Int32(1), Int32(2)}
ThenBody == <<Lit(Int32(3)), DumpTok>>
ElseBody == <<Lit(Int32(4)), DumpTok>>

IfStmt(c) == <<Lit(c), IfTok, LBraceTok>> \o ThenBody \o <<RBraceTok>>
IfElseStmt(c) ==
    <<Lit(c), IfTok, LBraceTok>> \o ThenBody
        \o <<RBraceTok, ElseTok, LBraceTok>> \o ElseBody \o <<RBraceTok>>
EmptyIfStmt(c) == <<Lit(c), IfTok, LBraceTok, RBraceTok>>

Stmts == UNION {{IfStmt(c), IfElseStmt(c), EmptyIfStmt(c)} : c \in CondValues}

RECURSIVE StmtSeqs(_)
StmtSeqs(n) ==
    IF n = 0 THEN {<<>>}
    ELSE {s \o p : s \in Stmts, p \in StmtSeqs(n - 1)}

\* sequences of if-statements with literal conditions
BranchPrograms == UNION {StmtSeqs(n) : n \in 1..MaxStmts}

ArithLits ==
    {Int32(0), Int32(3), Int32(4), Int32(10), Int32(I32Max), String(<<97, 98>>)}
ArithOps == {"Add", "Sub", "Mul", "Div"}
CompareOps == {"Lt", "Lte", "Gt", "Gte", "Eq", "Ne"}

\* two operands and an operator, possibly above one more value that a second
\* operator then combines with the first result
ArithPrograms ==
    {<<Lit(a), Lit(b), Instr(op)>> : a \in ArithLits, b \in ArithLits,
                                    op \in ArithOps \cup CompareOps}
    \cup {<<Lit(x), Lit(a), Lit(b), Instr(op)>> \o tail :
             x \in ArithLits, a \in ArithLits, b \in ArithLits, op \in ArithOps,
             tail \in {<<>>} \cup {<<Instr(op2)>> : op2 \in ArithOps}}

Programs == StructPrograms \cup RawPrograms \cup BranchPrograms \cup ArithPrograms

(***************************************************************************)
(* State.                                                                  *)
(***************************************************************************)
VARIABLES
    chars,          \* Lexer.chars: the characters of the source text (code points)
    cursor,         \* Lexer.cursor
    start,          \* Lexer.start
    line,           \* Lexer.line
    line_start,     \* Lexer.line_start
    locations,      \* the location (line, column) of each token scanned so far
    src,            \* the lexer's token sequence, as handed to compile
    tokens,         \* compile: the token sequence, rewritten by the backpatch pass
    pc,             \* where the compiler / the VM stands
    count,          \* preprocess_program: index of the token visited
    cip,            \* preprocess_program: ip, the byte-offset counter
    cstack,         \* preprocess_program: stack of pending block indices
    hit_else_block, \* preprocess_program: hit_else_block
    byte_code,      \* compile: the ByteCode built by emission
    result,         \* the Err returned (or the crash), NoResult otherwise
    file,           \* the output file: whether it exists, and its bytes
    dump,           \* compile: the lines of the whole-stream disassembly
    endian,         \* byte order of the platform, fixed when bytes are first written
    build,          \* the VM's build: "debug" (debug assertions, overflow checks)
                    \* or "release"; fixed when the VM starts
    constant_bytes, \* load_binary / load_constants: pool bytes not yet decoded
    vm_bytes,       \* VirtualMachine.byte_code.bytes
    vm_constants,   \* VirtualMachine.byte_code.constants
    stack,          \* VirtualMachine.stack
    ip,             \* VirtualMachine.ip
    jmp_to_end,     \* execute: jmp_to_end
    last,           \* the instruction the VM executed last, and what it did
    executed,       \* offsets of the instructions the VM has executed
    trace           \* execute: the lines its disassembly hook has printed

lexer_vars == <<chars, cursor, start, line, line_start, locations>>
compiler_vars ==
    <<tokens, count, cip, cstack, hit_else_block, byte_code, file, dump>>
vm_vars ==
    <<constant_bytes, vm_bytes, vm_constants, stack, ip, jmp_to_end, last, executed,
      trace>>
vars == <<src, lexer_vars, pc, result, endian, build, compiler_vars, vm_vars>>

\* an Err value (or a crash, err = "panic") and the places it names
Failure(err, at) == [err |-> err, at |-> at]
NoResult == Failure("none", <<>>)
NoLast == [at |-> -1, op |-> "None", jumped |-> FALSE, truthy |-> FALSE]
NoFile == [exists |-> FALSE, bytes |-> <<>>]
NoByteCode == [bytes |-> <<>>, constants |-> <<>>]

\* VirtualMachine::new and the locals of compile before their first use
Fresh ==
    /\ count = 0
    /\ cip = 0
    /\ cstack = <<>>
    /\ hit_else_block = FALSE
    /\ byte_code = NoByteCode
    /\ result = NoResult
    /\ file = NoFile
    /\ constant_bytes = <<>>
    /\ vm_bytes = <<>>
    /\ vm_constants = <<>>
    /\ stack = <<>>
    /\ ip = 0
    /\ jmp_to_end = FALSE
    /\ last = NoLast
    /\ executed = {}
    /\ dump = <<>>
    /\ trace = <<>>

\* no source text is being scanned
Unlexed ==
    /\ chars = <<>>
    /\ cursor = 0
    /\ start = 0
    /\ line = 1
    /\ line_start = 0
    /\ locations = <<>>

Init ==
    /\ src \in {p \o <<EofTok>> : p \in Programs}
    /\ tokens = src
    /\ pc = "compile"
    /\ endian = "unset"
    /\ build = "unset"
    /\ Fresh
    /\ Unlexed

(***************************************************************************)
(* Disassembler (disassembler.rs).  A printed line is the record of its    *)
(* fields: the zero-padded offset, the opcode name, the zero-padded        *)
(* operands and the text of a constant; panic marks a line cut short by a  *)
(* panic of the disassembler.  dump and trace hold what is printed when    *)
(* the disassemble flag of the compiler / of the VM is set.                *)
(***************************************************************************)
RECURSIVE ZeroPad(_, _)
ZeroPad(ds, w) == IF Len(ds) >= w THEN ds ELSE ZeroPad(<<48>> \o ds, w)

\* format!("{n:04}")
Pad4(n) ==
    IF n >= 0 THEN ZeroPad(to_string(n), 4)
    ELSE <<45>> \o ZeroPad(Tail(to_string(n)), 3)

\* impl Display for Value
Display(v) == IF v.tag = "String" THEN v.s ELSE to_string(v.n)

DisLine(adjusted, op, args, text, panic) ==
    [at |-> Pad4(adjusted), op |-> op, args |-> args, text |-> text, panic |-> panic]

\* a disassembler that steps over the opcode byte only, whatever the opcode
disassemble_instruction_internal_one_byte(bc, op, offset, adjusted, e) ==
    LET has == offset + 9 <= Len(bc.bytes)
        operand == SubSeq(bc.bytes, offset + 2, offset + 9)
    IN  CASE op = "Push" ->
                IF ~has THEN [line |-> DisLine(adjusted, op, <<>>, <<>>, TRUE), offset |-> offset]
                ELSE LET constant_index == usize_from_ne_bytes(operand, e)
                     IN  IF constant_index >= Len(bc.constants)
                         THEN [line |-> DisLine(adjusted, op, <<>>, <<>>, TRUE), offset |-> offset]
                         ELSE [line |-> DisLine(adjusted, op, <<Pad4(constant_index)>>,
                                                Display(bc.constants[constant_index + 1]), FALSE),
                               offset |-> offset + 1]
          [] op \in {"If", "Else", "Do", "RBrace"} ->
                IF ~has THEN [line |-> DisLine(adjusted, op, <<>>, <<>>, TRUE), offset |-> offset]
                ELSE [line |-> DisLine(adjusted, op,
                                       <<Pad4(adjusted), Pad4(isize_from_ne_bytes(operand, e))>>,
                                       <<>>, FALSE),
                      offset |-> offset + 1]
          [] op = "unreachable" ->
                [line |-> DisLine(adjusted, op, <<>>, <<>>, TRUE), offset |-> offset]
          [] OTHER ->
                [line |-> DisLine(adjusted, op, <<>>, <<>>, FALSE), offset |-> offset + 1]

\* disassemble_instruction_internal: the line printed and the offset after it
disassemble_instruction_internal(bc, op, offset, adjusted, e) ==
    LET has == offset + 9 <= Len(bc.bytes)
        operand == SubSeq(bc.bytes, offset + 2, offset + 9)
    IN  CASE op = "Push" ->
                IF ~has THEN [line |-> DisLine(adjusted, op, <<>>, <<>>, TRUE), offset |-> offset]
                ELSE LET constant_index == usize_from_ne_bytes(operand, e)
                     IN  IF constant_index >= Len(bc.constants)
                         THEN [line |-> DisLine(adjusted, op, <<>>, <<>>, TRUE), offset |-> offset]
                         ELSE [line |-> DisLine(adjusted, op, <<Pad4(constant_index)>>,
                                                Display(bc.constants[constant_index + 1]), FALSE),
                               offset |-> offset + 9]
          [] op \in {"If", "Else", "Do", "RBrace"} ->
                IF ~has THEN [line |-> DisLine(adjusted, op, <<>>, <<>>, TRUE), offset |-> offset]
                ELSE [line |-> DisLine(adjusted, op,
                                       <<Pad4(adjusted), Pad4(isize_from_ne_bytes(operand, e))>>,
                                       <<>>, FALSE),
                      offset |-> offset + 9]
          [] op = "unreachable" ->
                [line |-> DisLine(adjusted, op, <<>>, <<>>, TRUE), offset |-> offset]
          [] OTHER ->
                [line |-> DisLine(adjusted, op, <<>>, <<>>, FALSE), offset |-> offset + 1]

\* a hook that prints offsets as disassemble_byte_code counts them, header included
disassemble_instruction_with_header(bc, op, offset, e) ==
    disassemble_instruction_internal(bc, op, offset, offset + 8, e)

\* disassemble_instruction, the hook of VirtualMachine::execute
disassemble_instruction(bc, op, offset, e) ==
    disassemble_instruction_internal(bc, op, offset, offset, e)

RECURSIVE DisassembleFrom(_, _, _)
\* the loop of disassemble_byte_code from offset on
DisassembleFrom(bc, offset, e) ==
    IF offset >= Len(bc.bytes) THEN <<>>
    ELSE LET d == disassemble_instruction_internal(bc, OpCodeFrom(bc.bytes[offset + 1]),
                                                   offset, offset - 8, e)
         IN  IF d.line.panic THEN <<d.line>>
             ELSE <<d.line>> \o DisassembleFrom(bc, d.offset, e)

\* disassemble_byte_code: the 8-byte header is skipped
disassemble_byte_code(bc, e) == DisassembleFrom(bc, 8, e)

(***************************************************************************)
(* Compiler::compile (compiler.rs).                                        *)
(***************************************************************************)
RECURSIVE ErrorsFrom(_)
\* indices of the Error tokens from index i on, in token order
ErrorsFrom(i) ==
    IF i > Len(tokens) THEN <<>>
    ELSE (IF tokens[i].typ3 = "Error" THEN <<i>> ELSE <<>>) \o ErrorsFrom(i + 1)

\* a scan that reports the first Error token only
error_tokens_first ==
    IF ErrorsFrom(1) = <<>> THEN <<>> ELSE <<Head(ErrorsFrom(1))>>

\* compile, lines 38-41: the Error tokens, filtered in order
error_tokens == ErrorsFrom(1)

\* compile, lines 38-57: lexer errors abort before the first pass
CompileScan ==
    /\ pc = "compile"
    /\ IF error_tokens # <<>>
       THEN /\ pc' = "compile_failed"
            /\ result' = Failure("ParseError", error_tokens)
       ELSE /\ pc' = "preprocess"
            /\ UNCHANGED result
    /\ UNCHANGED <<src, lexer_vars, endian, build, compiler_vars, vm_vars>>

Token == tokens[count + 1]

\* a first pass that counts one byte less for an instruction with an operand
Advance_short(size) ==
    /\ cip' = cip + (IF size = 9 THEN 8 ELSE size)
    /\ count' = count + 1

Advance(size) ==
    /\ cip' = cip + size
    /\ count' = count + 1

Top(s) == s[Len(s)]
Pop(s) == SubSeq(s, 1, Len(s) - 1)

PlainOps ==
    {"Push", "Add", "Sub", "Mul", "Div", "Lt", "Lte", "Gt", "Gte", "Eq", "Ne",
     "Dump", "Halt"}

\* preprocess_program: payload-free instructions
PreprocessPlain ==
    /\ pc = "preprocess"
    /\ Token.typ3 = "Instruction" /\ Token.op \in PlainOps
    /\ Advance(1)
    /\ UNCHANGED <<src, lexer_vars, pc, result, endian, build, tokens, cstack,
                   hit_else_block, byte_code, file, dump, vm_vars>>

\* preprocess_program: If
PreprocessIf ==
    /\ pc = "preprocess"
    /\ IsOp(Token, "If")
    /\ cstack' = Append(cstack, count)
    /\ Advance(9)
    /\ UNCHANGED <<src, lexer_vars, pc, result, endian, build, tokens,
                   hit_else_block, byte_code, file, dump, vm_vars>>

\* preprocess_program: Else.  stack.pop().unwrap() panics on an empty stack.
PreprocessElse ==
    /\ pc = "preprocess"
    /\ IsOp(Token, "Else")
    /\ IF cstack = <<>>
       THEN /\ pc' = "compile_panic"
            /\ result' = Failure("panic", <<count + 1>>)
            /\ UNCHANGED <<tokens, cstack, cip, count, hit_else_block>>
       ELSE LET if_ip == Top(cstack)
            IN  IF tokens[if_ip + 1].typ3 = "Instruction"
                THEN /\ tokens' = [tokens EXCEPT ![if_ip + 1] = Jump("If", cip)]
                     /\ cstack' = Append(Pop(cstack), count)
                     /\ Advance(9)
                     /\ hit_else_block' = TRUE
                     /\ UNCHANGED <<pc, result>>
                ELSE /\ pc' = "compile_failed"
                     /\ result' = Failure("CompileError", <<if_ip + 1>>)
                     /\ cstack' = Pop(cstack)
                     /\ UNCHANGED <<tokens, cip, count, hit_else_block>>
    /\ UNCHANGED <<src, lexer_vars, endian, build, byte_code, file, dump, vm_vars>>

\* preprocess_program: a literal
PreprocessValue ==
    /\ pc = "preprocess"
    /\ Token.typ3 = "Value"
    /\ Advance(9)
    /\ UNCHANGED <<src, lexer_vars, pc, result, endian, build, tokens, cstack,
                   hit_else_block, byte_code, file, dump, vm_vars>>

\* a first pass that counts one byte for {
PreprocessLBrace_counts ==
    /\ pc = "preprocess"
    /\ Token.typ3 = "LBrace"
    /\ Advance(1)
    /\ UNCHANGED <<src, lexer_vars, pc, result, endian, build, tokens, cstack,
                   hit_else_block, byte_code, file, dump, vm_vars>>

\* preprocess_program: {
PreprocessLBrace ==
    /\ pc = "preprocess"
    /\ Token.typ3 = "LBrace"
    /\ Advance(0)
    /\ UNCHANGED <<src, lexer_vars, pc, result, endian, build, tokens, cstack,
                   hit_else_block, byte_code, file, dump, vm_vars>>

\* preprocess_program: }
PreprocessRBrace ==
    /\ pc = "preprocess"
    /\ Token.typ3 = "RBrace"
    /\ IF cstack # <<>> /\ hit_else_block
       THEN LET else_ip == Top(cstack)
            IN  IF tokens[else_ip + 1].typ3 = "Instruction"
                THEN /\ tokens' = [tokens EXCEPT ![else_ip + 1] = Jump("Else", cip)]
                     /\ cstack' = Pop(cstack)
                     /\ hit_else_block' = FALSE
                     /\ Advance(0)
                     /\ UNCHANGED <<pc, result>>
                ELSE /\ pc' = "compile_failed"
                     /\ result' = Failure("CompileError", <<else_ip + 1>>)
                     /\ cstack' = Pop(cstack)
                     /\ UNCHANGED <<tokens, cip, count, hit_else_block>>
       ELSE IF cstack # <<>> /\ ~IsOp(tokens[count + 2], "Else")
       THEN LET if_ip == Top(cstack)
            IN  IF tokens[if_ip + 1].typ3 = "Instruction"
                THEN /\ tokens' = [tokens EXCEPT ![if_ip + 1] = Jump("If", cip)]
                     /\ cstack' = Pop(cstack)
                     /\ Advance(0)
                     /\ UNCHANGED <<pc, result, hit_else_block>>
                ELSE /\ pc' = "compile_failed"
                     /\ result' = Failure("CompileError", <<if_ip + 1>>)
                     /\ cstack' = Pop(cstack)
                     /\ UNCHANGED <<tokens, cip, count, hit_else_block>>
       ELSE /\ Advance(0)
            /\ UNCHANGED <<pc, result, tokens, cstack, hit_else_block>>
    /\ UNCHANGED <<src, lexer_vars, endian, build, byte_code, file, dump, vm_vars>>

\* preprocess_program: Eof ends the pass
PreprocessEof ==
    /\ pc = "preprocess"
    /\ Token.typ3 = "Eof"
    /\ pc' = "verify"
    /\ UNCHANGED <<src, lexer_vars, result, endian, build, compiler_vars, vm_vars>>

\* a verification that looks at the If tokens only
Unresolved_if_only ==
    {i \in 1..Len(tokens) : IsOp(tokens[i], "If") /\ tokens[i].addr < 0}

\* the If / Else tokens whose payload is still negative, in token order
Unresolved ==
    {i \in 1..Len(tokens) :
        (IsOp(tokens[i], "If") \/ IsOp(tokens[i], "Else")) /\ tokens[i].addr < 0}

Min(S) == CHOOSE x \in S : \A y \in S : x <= y

\* a verification that has created the output file before it reports
Verify_writes ==
    /\ pc = "verify"
    /\ IF Unresolved # {}
       THEN /\ pc' = "compile_failed"
            /\ result' = Failure("CompileError", <<Min(Unresolved)>>)
            /\ file' = [exists |-> TRUE, bytes |-> <<>>]
       ELSE /\ pc' = "emit"
            /\ UNCHANGED <<result, file>>
    /\ UNCHANGED <<src, lexer_vars, endian, build, tokens, count, cip, cstack,
                   hit_else_block, byte_code, dump, vm_vars>>

\* verify_cross_reference_blocks
Verify ==
    /\ pc = "verify"
    /\ IF Unresolved # {}
       THEN /\ pc' = "compile_failed"
            /\ result' = Failure("CompileError", <<Min(Unresolved)>>)
       ELSE /\ pc' = "emit"
            /\ UNCHANGED result
    /\ UNCHANGED <<src, lexer_vars, endian, build, compiler_vars, vm_vars>>

(***************************************************************************)
(* Emission.                                                               *)
(***************************************************************************)
\* an emission whose Push carries the pool length after the literal is added
bytes_from_token_next_index(bc, token, e) ==
    CASE IsOp(token, "If") \/ IsOp(token, "Else") ->
            [bc EXCEPT !.bytes = @ \o <<as_byte(token.op)>> \o to_ne_bytes(token.addr, 8, e)]
      [] token.typ3 = "Instruction" /\ token.op \notin {"If", "Else"} ->
            [bc EXCEPT !.bytes = @ \o <<as_byte(token.op)>>]
      [] token.typ3 = "Value" ->
            LET constants == Append(bc.constants, token.value)
                constant_index == Len(constants)
            IN  [bytes |-> bc.bytes \o <<as_byte("Push")>> \o to_ne_bytes(constant_index, 8, e),
                 constants |-> constants]
      [] token.typ3 \in {"LBrace", "RBrace"} -> bc
      [] token.typ3 = "Eof" ->
            LET bytes == Append(bc.bytes, as_byte("Halt"))
                halt_index == Len(bytes) - 1
            IN  [bc EXCEPT !.bytes = to_ne_bytes(halt_index, 8, e) \o bytes]

\* bytes_from_token
bytes_from_token(bc, token, e) ==
    CASE IsOp(token, "If") \/ IsOp(token, "Else") ->
            [bc EXCEPT !.bytes = @ \o <<as_byte(token.op)>> \o to_ne_bytes(token.addr, 8, e)]
      [] token.typ3 = "Instruction" /\ token.op \notin {"If", "Else"} ->
            [bc EXCEPT !.bytes = @ \o <<as_byte(token.op)>>]
      [] token.typ3 = "Value" ->
            LET constants == Append(bc.constants, token.value)
                constant_index == Len(constants) - 1
            IN  [bytes |-> bc.bytes \o <<as_byte("Push")>> \o to_ne_bytes(constant_index, 8, e),
                 constants |-> constants]
      [] token.typ3 \in {"LBrace", "RBrace"} -> bc
      [] token.typ3 = "Eof" ->
            LET bytes == Append(bc.bytes, as_byte("Halt"))
                halt_index == Len(bytes) - 1
            IN  [bc EXCEPT !.bytes = to_ne_bytes(halt_index, 8, e) \o bytes]

RECURSIVE EmitTokens(_, _, _)
\* compile, lines 65-73: bytes_from_token over the tokens in order
EmitTokens(bc, toks, e) ==
    IF toks = <<>> THEN bc
    ELSE EmitTokens(bytes_from_token(bc, Head(toks), e), Tail(toks), e)

\* a serialization that writes a string's length in characters, not in bytes
constant_to_bytes_chars(constant, e) ==
    CASE constant.tag = "Int32" ->
            <<constant_type(constant)>> \o to_ne_bytes(constant.n, 4, e)
      [] constant.tag = "UInt32" ->
            <<constant_type(constant)>> \o to_ne_bytes(constant.n, 4, e)
      [] constant.tag = "String" ->
            LET bytes == as_bytes(constant.s)
            IN  <<constant_type(constant)>> \o to_ne_bytes(Len(constant.s), 8, e) \o bytes

\* one constant of constants_to_bytes
constant_to_bytes(constant, e) ==
    CASE constant.tag = "Int32" ->
            <<constant_type(constant)>> \o to_ne_bytes(constant.n, 4, e)
      [] constant.tag = "UInt32" ->
            <<constant_type(constant)>> \o to_ne_bytes(constant.n, 4, e)
      [] constant.tag = "String" ->
            LET bytes == as_bytes(constant.s)
            IN  <<constant_type(constant)>> \o to_ne_bytes(Len(bytes), 8, e) \o bytes

RECURSIVE constants_to_bytes(_, _)
constants_to_bytes(constants, e) ==
    IF constants = <<>> THEN <<>>
    ELSE constant_to_bytes(Head(constants), e) \o constants_to_bytes(Tail(constants), e)

\* compile, lines 65-77: emission of the instruction section and its header,
\* and the dump of the disassembler
Emit ==
    /\ pc = "emit"
    /\ \E e \in Endians :
        /\ endian' = e
        /\ byte_code' = EmitTokens(NoByteCode, tokens, e)
        /\ dump' = disassemble_byte_code(EmitTokens(NoByteCode, tokens, e), e)
    /\ pc' = "write"
    /\ UNCHANGED <<src, lexer_vars, result, build, tokens, count, cip, cstack,
                   hit_else_block, file, vm_vars>>

\* compile, lines 79-93: the pool is appended and the output file written;
\* File::create may fail
Write ==
    /\ pc = "write"
    /\ LET bytes == byte_code.bytes \o constants_to_bytes(byte_code.constants, endian)
       IN  /\ byte_code' = [byte_code EXCEPT !.bytes = bytes]
           /\ \E created \in BOOLEAN :
                IF created
                THEN /\ file' = [exists |-> TRUE, bytes |-> bytes]
                     /\ pc' = "compiled"
                     /\ UNCHANGED result
                ELSE /\ file' = file
                     /\ pc' = "compile_failed"
                     /\ result' = Failure("FailedToCreateFile", <<>>)
    /\ UNCHANGED <<src, lexer_vars, endian, build, tokens, count, cip, cstack,
                   hit_else_block, dump, vm_vars>>

(***************************************************************************)
(* VirtualMachine::load_binary and load_constants (virtual_machine.rs).    *)
(***************************************************************************)
Drop(bs, n) == SubSeq(bs, n + 1, Len(bs))
Take(bs, n) == SubSeq(bs, 1, n)

\* the eight bytes of usize::MAX
usize_MAX == <<255, 255, 255, 255, 255, 255, 255, 255>>

\* a loader that takes no file for empty
is_empty_never(bytes) == FALSE

\* load_binary, line 156: Vec::is_empty
is_empty(bytes) == bytes = <<>>

\* a loader that splits the file at halt_index, leaving Halt with the pool
LoadBinary_split_at_halt ==
    /\ pc = "compiled"
    /\ \E b \in {"debug", "release"} : build' = b
    /\ LET bytes == file.bytes
       IN  IF is_empty(bytes)
           THEN /\ pc' = "load_failed"
                /\ result' = Failure("CorruptedBinary", <<>>)
                /\ UNCHANGED <<vm_bytes, constant_bytes>>
           ELSE IF Len(bytes) < 8
           THEN /\ pc' = "vm_panic"
                /\ result' = Failure("panic", <<>>)
                /\ UNCHANGED <<vm_bytes, constant_bytes>>
           ELSE LET halt_index == usize_from_ne_bytes(Take(bytes, 8), endian)
                    rest == Drop(bytes, 8)
                IN  IF Take(bytes, 8) = usize_MAX /\ build' = "release"
                    THEN /\ vm_bytes' = <<>>
                         /\ constant_bytes' = rest
                         /\ pc' = "load_constants"
                         /\ UNCHANGED result
                    ELSE IF halt_index = Huge \/ halt_index + 1 > Len(rest)
                    THEN /\ pc' = "vm_panic"
                         /\ result' = Failure("panic", <<>>)
                         /\ UNCHANGED <<vm_bytes, constant_bytes>>
                    ELSE /\ vm_bytes' = Take(rest, halt_index)
                         /\ constant_bytes' = Drop(rest, halt_index)
                         /\ pc' = "load_constants"
                         /\ UNCHANGED result
    /\ UNCHANGED <<src, lexer_vars, endian, compiler_vars, vm_constants, stack, ip,
                   jmp_to_end, last, executed, trace>>

\* load_binary, lines 155-169, on the bytes of the file.  Vec::drain panics
\* when its range reaches past the end; `halt_index + 1` overflows for a
\* header of usize::MAX, which panics in a debug build and wraps to 0 in a
\* release build.
LoadBinary ==
    /\ pc = "compiled"
    /\ \E b \in {"debug", "release"} : build' = b
    /\ LET bytes == file.bytes
       IN  IF is_empty(bytes)
           THEN /\ pc' = "load_failed"
                /\ result' = Failure("CorruptedBinary", <<>>)
                /\ UNCHANGED <<vm_bytes, constant_bytes>>
           ELSE IF Len(bytes) < 8
           THEN /\ pc' = "vm_panic"
                /\ result' = Failure("panic", <<>>)
                /\ UNCHANGED <<vm_bytes, constant_bytes>>
           ELSE LET halt_index == usize_from_ne_bytes(Take(bytes, 8), endian)
                    rest == Drop(bytes, 8)
                IN  IF Take(bytes, 8) = usize_MAX /\ build' = "release"
                    THEN /\ vm_bytes' = <<>>
                         /\ constant_bytes' = rest
                         /\ pc' = "load_constants"
                         /\ UNCHANGED result
                    ELSE IF halt_index = Huge \/ halt_index + 1 > Len(rest)
                    THEN /\ pc' = "vm_panic"
                         /\ result' = Failure("panic", <<>>)
                         /\ UNCHANGED <<vm_bytes, constant_bytes>>
                    ELSE /\ vm_bytes' = Take(rest, halt_index + 1)
                         /\ constant_bytes' = Drop(rest, halt_index + 1)
                         /\ pc' = "load_constants"
                         /\ UNCHANGED result
    /\ UNCHANGED <<src, lexer_vars, endian, compiler_vars, vm_constants, stack, ip,
                   jmp_to_end, last, executed, trace>>

\* what one iteration of load_constants decodes from the front of bs: the
\* constant and the bytes consumed, or the failure
decode_constant(bs, e) ==
    LET constant_type_ == bs[1]
        body == Tail(bs)
    IN  CASE constant_type_ = 0 ->
                IF Len(body) < 4 THEN [err |-> "panic"]
                ELSE [err |-> "none", constant |-> Int32(i32_from_ne_bytes(Take(body, 4), e)),
                      used |-> 5]
          [] constant_type_ = 1 ->
                IF Len(body) < 4 THEN [err |-> "panic"]
                ELSE [err |-> "none", constant |-> UInt32(u32_from_ne_bytes(Take(body, 4), e)),
                      used |-> 5]
          [] constant_type_ = 2 ->
                IF Len(body) < 8 THEN [err |-> "panic"]
                ELSE LET len == usize_from_ne_bytes(Take(body, 8), e)
                     IN  IF len > Len(body) - 8 THEN [err |-> "panic"]
                         ELSE LET string == from_utf8(SubSeq(body, 9, 8 + len))
                              IN  IF string = <<-1>> THEN [err |-> "InvalidUTF8String"]
                                  ELSE [err |-> "none", constant |-> String(string),
                                        used |-> 9 + len]
          [] OTHER -> [err |-> "panic"]

\* load_constants: one iteration of its loop, or its return on an empty rest
LoadConstants ==
    /\ pc = "load_constants"
    /\ IF constant_bytes = <<>>
       THEN /\ pc' = "loaded"
            /\ UNCHANGED <<result, constant_bytes, vm_constants>>
       ELSE LET d == decode_constant(constant_bytes, endian)
            IN  IF d.err = "none"
                THEN /\ vm_constants' = Append(vm_constants, d.constant)
                     /\ constant_bytes' = Drop(constant_bytes, d.used)
                     /\ UNCHANGED <<pc, result>>
                ELSE /\ pc' = IF d.err = "panic" THEN "vm_panic" ELSE "load_failed"
                     /\ result' = Failure(d.err, <<>>)
                     /\ constant_bytes' = Tail(constant_bytes)
                     /\ UNCHANGED vm_constants
    /\ UNCHANGED <<src, lexer_vars, endian, build, compiler_vars, vm_bytes, stack, ip,
                   jmp_to_end, last, executed, trace>>

(***************************************************************************)
(* Value conversions and arithmetic (nere_internal.rs).  A result is       *)
(* [ok, v]: ok = FALSE is a panic (a failed debug assertion, unreachable!, *)
(* todo!, an overflow check of the debug build, a division by zero).       *)
(* b is the build.  UInt32 values of the model stay below 2^31; a larger   *)
(* one is Huge.                                                            *)
(***************************************************************************)
Ok(v) == [ok |-> TRUE, v |-> v]
Panic == [ok |-> FALSE, v |-> NoValue]

\* Value::as_i32, as a number
as_i32(v, b) ==
    IF b = "debug" /\ constant_type(v) # 0 THEN [ok |-> FALSE, n |-> 0]
    ELSE [ok |-> TRUE, n |-> IF v.tag = "Int32" THEN v.n ELSE 0]

\* Value::as_u32, as a number
as_u32(v, b) ==
    IF b = "debug" /\ constant_type(v) # 0 THEN [ok |-> FALSE, n |-> 0]
    ELSE [ok |-> TRUE, n |-> IF v.tag = "UInt32" THEN v.n ELSE 0]

\* Value::as_i32_implicit, as a number
as_i32_implicit(v, b) ==
    CASE v.tag = "Int32" -> as_i32(v, b)
      [] v.tag = "UInt32" -> as_u32(v, b)
      [] v.tag = "String" -> [ok |-> FALSE, n |-> 0]

\* the debug assertion that opens add, sub, mul and div
SameType(lhs, rhs, b) == b = "release" \/ constant_type(lhs) = constant_type(rhs)

\* impl Add for Value
add(lhs, rhs, b) ==
    IF ~SameType(lhs, rhs, b) THEN Panic
    ELSE CASE lhs.tag = "Int32" ->
                LET r == as_i32_implicit(rhs, b)
                IN  IF ~r.ok \/ (b = "debug" /\ AddOverflows(lhs.n, r.n)) THEN Panic
                    ELSE Ok(Int32(AddWrap(lhs.n, r.n)))
           [] lhs.tag = "UInt32" ->
                LET r == as_u32(rhs, b)
                IN  IF ~r.ok THEN Panic
                    ELSE Ok(UInt32(IF AddOverflows(lhs.n, r.n) THEN Huge ELSE lhs.n + r.n))
           [] lhs.tag = "String" ->
                IF rhs.tag = "String" THEN Ok(String(lhs.s \o rhs.s))
                ELSE Ok(String(lhs.s \o to_string(rhs.n)))

\* impl Sub for Value
sub(lhs, rhs, b) ==
    IF ~SameType(lhs, rhs, b) THEN Panic
    ELSE CASE lhs.tag = "Int32" ->
                LET r == as_i32_implicit(rhs, b)
                IN  IF ~r.ok \/ (b = "debug" /\ SubOverflows(lhs.n, r.n)) THEN Panic
                    ELSE Ok(Int32(SubWrap(lhs.n, r.n)))
           [] lhs.tag = "UInt32" ->
                LET r == as_u32(rhs, b)
                IN  IF ~r.ok \/ (b = "debug" /\ lhs.n < r.n) THEN Panic
                    ELSE Ok(UInt32(IF lhs.n < r.n THEN Huge ELSE lhs.n - r.n))
           [] lhs.tag = "String" -> Panic

\* impl Mul for Value
mul(lhs, rhs, b) ==
    IF ~SameType(lhs, rhs, b) THEN Panic
    ELSE CASE lhs.tag = "Int32" ->
                LET r == as_i32_implicit(rhs, b)
                IN  IF ~r.ok \/ (b = "debug" /\ MulOverflows(lhs.n, r.n)) THEN Panic
                    ELSE Ok(Int32(MulWrap(lhs.n, r.n)))
           [] lhs.tag = "UInt32" ->
                LET r == as_u32(rhs, b)
                IN  IF ~r.ok THEN Panic
                    ELSE Ok(UInt32(IF MulOverflows(lhs.n, r.n) THEN Huge ELSE lhs.n * r.n))
           [] lhs.tag = "String" -> Panic

\* a division that answers 0 for a zero divisor instead of panicking
div_silent(lhs, rhs, b) ==
    IF ~SameType(lhs, rhs, b) THEN Panic
    ELSE CASE lhs.tag = "Int32" ->
                LET r == as_i32_implicit(rhs, b)
                IN  IF ~r.ok \/ DivOverflows(lhs.n, r.n) THEN Panic
                    ELSE Ok(Int32(IF r.n = 0 THEN 0 ELSE TruncDiv(lhs.n, r.n)))
           [] lhs.tag = "UInt32" ->
                LET r == as_u32(rhs, b)
                IN  IF ~r.ok THEN Panic
                    ELSE Ok(UInt32(IF r.n = 0 THEN 0 ELSE lhs.n \div r.n))
           [] lhs.tag = "String" -> Panic

\* impl Div for Value
div(lhs, rhs, b) ==
    IF ~SameType(lhs, rhs, b) THEN Panic
    ELSE CASE lhs.tag = "Int32" ->
                LET r == as_i32_implicit(rhs, b)
                IN  IF ~r.ok \/ r.n = 0 \/ DivOverflows(lhs.n, r.n) THEN Panic
                    ELSE Ok(Int32(TruncDiv(lhs.n, r.n)))
           [] lhs.tag = "UInt32" ->
                LET r == as_u32(rhs, b)
                IN  IF ~r.ok \/ r.n = 0 THEN Panic
                    ELSE Ok(UInt32(lhs.n \div r.n))
           [] lhs.tag = "String" -> Panic

RECURSIVE SeqLess(_, _)
\* lexicographic order of strings
SeqLess(x, y) ==
    IF y = <<>> THEN FALSE
    ELSE IF x = <<>> THEN TRUE
    ELSE IF Head(x) # Head(y) THEN Head(x) < Head(y)
    ELSE SeqLess(Tail(x), Tail(y))

\* the derived PartialOrd of Value: by variant, then by payload
Less(lhs, rhs) ==
    IF constant_type(lhs) # constant_type(rhs)
    THEN constant_type(lhs) < constant_type(rhs)
    ELSE IF lhs.tag = "String" THEN SeqLess(lhs.s, rhs.s)
    ELSE lhs.n < rhs.n

\* the comparison instructions of execute
compare(op, lhs, rhs) ==
    LET holds == CASE op = "Lt" -> Less(lhs, rhs)
                   [] op = "Lte" -> Less(lhs, rhs) \/ lhs = rhs
                   [] op = "Gt" -> Less(rhs, lhs)
                   [] op = "Gte" -> Less(rhs, lhs) \/ lhs = rhs
                   [] op = "Eq" -> lhs = rhs
                   [] op = "Ne" -> lhs # rhs
    IN  Int32(IF holds THEN 1 ELSE 0)

\* the arithmetic instructions with the operands taken in the other order
arith_swapped(op, lhs, rhs, b) ==
    CASE op = "Add" -> add(rhs, lhs, b)
      [] op = "Sub" -> sub(rhs, lhs, b)
      [] op = "Mul" -> mul(rhs, lhs, b)
      [] op = "Div" -> div(rhs, lhs, b)

\* the arithmetic instructions of execute
arith(op, lhs, rhs, b) ==
    CASE op = "Add" -> add(lhs, rhs, b)
      [] op = "Sub" -> sub(lhs, rhs, b)
      [] op = "Mul" -> mul(lhs, rhs, b)
      [] op = "Div" -> div(lhs, rhs, b)

(***************************************************************************)
(* VirtualMachine::execute (virtual_machine.rs): one action per arm of the *)
(* dispatch, each one iteration of the loop.                               *)
(***************************************************************************)
is_at_end == ip >= Len(vm_bytes)

\* the opcode at ip (execute, lines 35-38)
opcode == OpCodeFrom(vm_bytes[ip + 1])

Fetching(ops) == pc = "execute" /\ ~is_at_end /\ opcode \in ops

\* the 8-byte operand that follows the opcode at ip, if the bytes are there
HasOperand == ip + 9 <= Len(vm_bytes)
Operand == SubSeq(vm_bytes, ip + 2, ip + 9)

\* Vec::pop().unwrap(), slice indexing and the arithmetic of Value panic
VmPanic ==
    /\ pc' = "vm_panic"
    /\ result' = Failure("panic", <<ip>>)

\* bookkeeping: the instruction executed, whether it jumped, and whether the
\* most recently executed If continued into its body
Executed(op, jumped, truthy) ==
    /\ last' = [at |-> ip, op |-> op, jumped |-> jumped,
                truthy |-> IF op = "If" THEN truthy ELSE last.truthy]
    /\ executed' = executed \cup {ip}
    /\ trace' = Append(trace, disassemble_instruction(
                    [bytes |-> vm_bytes, constants |-> vm_constants], opcode, ip, endian).line)

\* `return_addr as usize`: a negative address becomes one above every length
as_usize(n) == IF n < 0 THEN Huge ELSE n

\* jmp
jmp(to) ==
    IF to >= Len(vm_bytes)
    THEN /\ pc' = "vm_failed"
         /\ result' = Failure("SegFault", <<ip + 9>>)
         /\ ip' = ip + 9
    ELSE /\ ip' = to
         /\ UNCHANGED <<pc, result>>

\* execute, lines 27-28: entry, on a VM whose binary is loaded
Execute ==
    /\ pc = "loaded"
    /\ jmp_to_end' = FALSE
    /\ pc' = "execute"
    /\ UNCHANGED <<src, lexer_vars, result, endian, build, compiler_vars, constant_bytes,
                   vm_bytes, vm_constants, stack, ip, last, executed, trace>>

\* a Push that moves the value out of the pool instead of cloning it
ExecutePush_take ==
    /\ Fetching({"Push"})
    /\ Executed("Push", FALSE, FALSE)
    /\ IF ~HasOperand
       THEN VmPanic /\ ip' = ip + 1 /\ UNCHANGED <<stack, vm_constants>>
       ELSE LET constant_index == usize_from_ne_bytes(Operand, endian)
            IN  IF constant_index >= Len(vm_constants)
                THEN VmPanic /\ ip' = ip + 9 /\ UNCHANGED <<stack, vm_constants>>
                ELSE /\ stack' = Append(stack, vm_constants[constant_index + 1])
                     /\ vm_constants' = SubSeq(vm_constants, 1, constant_index)
                            \o SubSeq(vm_constants, constant_index + 2, Len(vm_constants))
                     /\ ip' = ip + 9
                     /\ UNCHANGED <<pc, result>>
    /\ UNCHANGED <<src, lexer_vars, endian, build, compiler_vars, constant_bytes, vm_bytes,
                   jmp_to_end>>

\* execute: Push (read_constant)
ExecutePush ==
    /\ Fetching({"Push"})
    /\ Executed("Push", FALSE, FALSE)
    /\ IF ~HasOperand
       THEN VmPanic /\ ip' = ip + 1 /\ UNCHANGED stack
       ELSE LET constant_index == usize_from_ne_bytes(Operand, endian)
            IN  IF constant_index >= Len(vm_constants)
                THEN VmPanic /\ ip' = ip + 9 /\ UNCHANGED stack
                ELSE /\ stack' = Append(stack, vm_constants[constant_index + 1])
                     /\ ip' = ip + 9
                     /\ UNCHANGED <<pc, result>>
    /\ UNCHANGED <<src, lexer_vars, endian, build, compiler_vars, constant_bytes, vm_bytes,
                   vm_constants, jmp_to_end>>

\* the popped operands of a binary instruction
rhs == stack[Len(stack)]
lhs == stack[Len(stack) - 1]

\* an arithmetic arm that takes 0 for each operand the stack does not hold
ExecuteArith_default ==
    /\ Fetching(ArithOps)
    /\ Executed(opcode, FALSE, FALSE)
    /\ ip' = ip + 1
    /\ IF Len(stack) < 2
       THEN /\ stack' = <<Int32(0)>>
            /\ UNCHANGED <<pc, result>>
       ELSE LET r == arith(opcode, lhs, rhs, build)
            IN  IF r.ok
                THEN /\ stack' = Append(Pop(Pop(stack)), r.v)
                     /\ UNCHANGED <<pc, result>>
                ELSE VmPanic /\ stack' = Pop(Pop(stack))
    /\ UNCHANGED <<src, lexer_vars, endian, build, compiler_vars, constant_bytes, vm_bytes,
                   vm_constants, jmp_to_end>>

\* execute: Add, Sub, Mul, Div
ExecuteArith ==
    /\ Fetching(ArithOps)
    /\ Executed(opcode, FALSE, FALSE)
    /\ ip' = ip + 1
    /\ IF Len(stack) < 2
       THEN VmPanic /\ stack' = <<>>
       ELSE LET r == arith(opcode, lhs, rhs, build)
            IN  IF r.ok
                THEN /\ stack' = Append(Pop(Pop(stack)), r.v)
                     /\ UNCHANGED <<pc, result>>
                ELSE VmPanic /\ stack' = Pop(Pop(stack))
    /\ UNCHANGED <<src, lexer_vars, endian, build, compiler_vars, constant_bytes, vm_bytes,
                   vm_constants, jmp_to_end>>

\* execute: Lt, Lte, Gt, Gte, Eq, Ne
ExecuteCompare ==
    /\ Fetching(CompareOps)
    /\ Executed(opcode, FALSE, FALSE)
    /\ ip' = ip + 1
    /\ IF Len(stack) < 2
       THEN VmPanic /\ stack' = <<>>
       ELSE /\ stack' = Append(Pop(Pop(stack)), compare(opcode, lhs, rhs))
            /\ UNCHANGED <<pc, result>>
    /\ UNCHANGED <<src, lexer_vars, endian, build, compiler_vars, constant_bytes, vm_bytes,
                   vm_constants, jmp_to_end>>

\* execute: If (read_isize, as_i32_implicit, jmp)
ExecuteIf ==
    /\ Fetching({"If"})
    /\ IF stack = <<>>
       THEN /\ VmPanic /\ ip' = ip + 1
            /\ Executed("If", FALSE, FALSE)
            /\ UNCHANGED <<stack, jmp_to_end>>
       ELSE LET value == Top(stack)
                c == as_i32_implicit(value, build)
            IN  /\ stack' = Pop(stack)
                /\ IF ~HasOperand
                   THEN /\ VmPanic /\ ip' = ip + 1
                        /\ Executed("If", FALSE, FALSE)
                        /\ UNCHANGED jmp_to_end
                   ELSE IF ~c.ok
                   THEN /\ VmPanic /\ ip' = ip + 9
                        /\ Executed("If", FALSE, FALSE)
                        /\ UNCHANGED jmp_to_end
                   ELSE IF c.n = 1
                   THEN /\ jmp_to_end' = TRUE
                        /\ ip' = ip + 9
                        /\ Executed("If", FALSE, TRUE)
                        /\ UNCHANGED <<pc, result>>
                   ELSE /\ jmp(as_usize(isize_from_ne_bytes(Operand, endian)))
                        /\ Executed("If", TRUE, FALSE)
                        /\ UNCHANGED jmp_to_end
    /\ UNCHANGED <<src, lexer_vars, endian, build, compiler_vars, constant_bytes, vm_bytes,
                   vm_constants>>

\* execute: Else (read_isize, jmp)
ExecuteElse ==
    /\ Fetching({"Else"})
    /\ IF ~HasOperand
       THEN /\ VmPanic /\ ip' = ip + 1
            /\ Executed("Else", FALSE, FALSE)
       ELSE IF jmp_to_end
       THEN /\ jmp(as_usize(isize_from_ne_bytes(Operand, endian)))
            /\ Executed("Else", TRUE, FALSE)
       ELSE /\ ip' = ip + 9
            /\ Executed("Else", FALSE, FALSE)
            /\ UNCHANGED <<pc, result>>
    /\ UNCHANGED <<src, lexer_vars, endian, build, compiler_vars, constant_bytes, vm_bytes,
                   vm_constants, stack, jmp_to_end>>

\* execute: Dump
ExecuteDump ==
    /\ Fetching({"Dump"})
    /\ Executed("Dump", FALSE, FALSE)
    /\ ip' = ip + 1
    /\ IF stack = <<>>
       THEN VmPanic /\ UNCHANGED stack
       ELSE /\ stack' = Pop(stack)
            /\ UNCHANGED <<pc, result>>
    /\ UNCHANGED <<src, lexer_vars, endian, build, compiler_vars, constant_bytes, vm_bytes,
                   vm_constants, jmp_to_end>>

\* execute: Halt, or the end of the instruction stream, ends the loop
ExecuteHalt ==
    /\ pc = "execute"
    /\ IF is_at_end
       THEN UNCHANGED <<ip, last, executed, trace>>
       ELSE /\ opcode = "Halt"
            /\ ip' = ip + 1
            /\ Executed("Halt", FALSE, FALSE)
    /\ pc' = "finished"
    /\ UNCHANGED <<src, lexer_vars, result, endian, build, compiler_vars, constant_bytes,
                   vm_bytes, vm_constants, stack, jmp_to_end>>

(***************************************************************************)
(* The toolchain: compile a source, load the binary, execute it.           *)
(***************************************************************************)
Next ==
    \/ CompileScan
    \/ PreprocessPlain
    \/ PreprocessIf
    \/ PreprocessElse
    \/ PreprocessValue
    \/ PreprocessLBrace
    \/ PreprocessRBrace
    \/ PreprocessEof
    \/ Verify
    \/ Emit
    \/ Write
    \/ LoadBinary
    \/ LoadConstants
    \/ Execute
    \/ ExecutePush
    \/ ExecuteArith
    \/ ExecuteCompare
    \/ ExecuteIf
    \/ ExecuteElse
    \/ ExecuteDump
    \/ ExecuteHalt

Spec == Init /\ [][Next]_vars

\* programs that branch on literal conditions, an if nested in an else body,
\* and one arithmetic and one comparison
\* programs whose instructions find too few values on the stack
UnderflowPrograms ==
    {<<Instr(op)>> : op \in ArithOps \cup CompareOps}
    \cup {<<Lit(Int32(3)), Instr(op), DumpTok>> : op \in ArithOps \cup CompareOps}
    \cup {<<DumpTok>>, <<Lit(Int32(3)), DumpTok, DumpTok, Lit(Int32(4))>>,
          <<IfTok, LBraceTok, Lit(Int32(3)), RBraceTok>>,
          <<Lit(Int32(1)), IfTok, LBraceTok, IfTok, LBraceTok, RBraceTok, RBraceTok>>}

LivePrograms ==
    BranchPrograms
    \cup UnderflowPrograms
    \cup {<<Lit(Int32(3)), Lit(Int32(4)), Instr(op), DumpTok>> : op \in {"Add", "Lt"}}
    \cup {<<Lit(c), IfTok, LBraceTok, RBraceTok, ElseTok, LBraceTok, Lit(d), IfTok,
             LBraceTok, DumpTok, RBraceTok, RBraceTok>> : c \in {Int32(0), Int32(1)},
                                                          d \in {Int32(0), Int32(1)}}

InitLive ==
    /\ src \in {p \o <<EofTok>> : p \in LivePrograms}
    /\ tokens = src
    /\ pc = "compile"
    /\ endian = "unset"
    /\ build = "unset"
    /\ Fresh
    /\ Unlexed

\* one iteration of the loop of execute
Step ==
    \/ ExecutePush
    \/ ExecuteArith
    \/ ExecuteCompare
    \/ ExecuteIf
    \/ ExecuteElse
    \/ ExecuteDump
    \/ ExecuteHalt

\* the loop of execute is sequential code: it goes on iterating until it
\* breaks, returns a fault or panics
SpecLive == InitLive /\ [][Next]_vars /\ WF_vars(Step)

(***************************************************************************)
(* The constant pool alone: constants_to_bytes followed by load_constants. *)
(***************************************************************************)
PoolValues ==
    {Int32(0), Int32(-1), Int32(I32Max), Int32(I32Min), UInt32(0), UInt32(I32Max),
     String(<<>>), String(<<97, 98>>), String(<<233, 97>>)}

Pools == UNION {[1..n -> PoolValues] : n \in 0..MaxPool}

InitPool ==
    /\ src = <<EofTok>>
    /\ tokens = src
    /\ pc = "serialize"
    /\ endian \in Endians
    /\ build = "unset"
    /\ count = 0
    /\ cip = 0
    /\ cstack = <<>>
    /\ hit_else_block = FALSE
    /\ byte_code \in {[bytes |-> <<>>, constants |-> p] : p \in Pools}
    /\ result = NoResult
    /\ file = NoFile
    /\ constant_bytes = <<>>
    /\ vm_bytes = <<>>
    /\ vm_constants = <<>>
    /\ stack = <<>>
    /\ ip = 0
    /\ jmp_to_end = FALSE
    /\ last = NoLast
    /\ executed = {}
    /\ dump = <<>>
    /\ trace = <<>>
    /\ Unlexed

\* constants_to_bytes applied to the pool; its bytes are handed to load_constants
Serialize ==
    /\ pc = "serialize"
    /\ constant_bytes' = constants_to_bytes(byte_code.constants, endian)
    /\ pc' = "load_constants"
    /\ UNCHANGED <<src, lexer_vars, result, endian, build, compiler_vars, vm_bytes,
                   vm_constants, stack, ip, jmp_to_end, last, executed, trace>>

NextPool == Serialize \/ LoadConstants

SpecPool == InitPool /\ [][NextPool]_vars

(***************************************************************************)
(* Source constructs, read off the lexer's tokens.                         *)
(***************************************************************************)
RECURSIVE Close(_, _, _)
\* the index of the } that closes the block entered before index i, 0 if none
Close(t, i, depth) ==
    IF i > Len(t) THEN 0
    ELSE IF t[i].typ3 = "RBrace"
         THEN (IF depth = 0 THEN i ELSE Close(t, i + 1, depth - 1))
    ELSE IF t[i].typ3 = "LBrace" THEN Close(t, i + 1, depth + 1)
    ELSE Close(t, i + 1, depth)

\* the } matching the { at index i
Match(t, i) == Close(t, i + 1, 0)

\* t[i] opens `if { ... }`
IfBlockAt(t, i) ==
    /\ i + 1 <= Len(t)
    /\ IsOp(t[i], "If")
    /\ t[i + 1].typ3 = "LBrace"
    /\ Match(t, i + 1) # 0

\* t[i] opens `if { A } else { B }`
IfElseAt(t, i) ==
    /\ IfBlockAt(t, i)
    /\ LET j == Match(t, i + 1)
       IN  /\ j + 2 <= Len(t)
           /\ IsOp(t[j + 1], "Else")
           /\ t[j + 2].typ3 = "LBrace"
           /\ Match(t, j + 2) # 0

\* every block of t is the body of an if or of an else, and every else
\* follows the body of an if
Structured(t) ==
    \A i \in 1..Len(t) :
        /\ IsOp(t[i], "If") => IfBlockAt(t, i)
        /\ t[i].typ3 = "LBrace" =>
                i > 1 /\ (IsOp(t[i - 1], "If") \/ IsOp(t[i - 1], "Else"))
        /\ t[i].typ3 = "RBrace" =>
                \E j \in 1..(i - 1) : t[j].typ3 = "LBrace" /\ Match(t, j) = i
        /\ IsOp(t[i], "Else") =>
                \E j \in 1..(i - 1) : IfElseAt(t, j) /\ Match(t, j + 1) = i - 1
        /\ t[i].typ3 # "Error"

\* the token emits an opcode
Emits(token) == token.typ3 \in {"Instruction", "Value", "Eof"}

\* bytes a token occupies in the instruction section: an opcode byte, and an
\* 8-byte operand after Push, If and Else
Size(token) ==
    IF token.typ3 = "Value" \/ IsOp(token, "If") \/ IsOp(token, "Else") THEN 9
    ELSE IF Emits(token) THEN 1
    ELSE 0

RECURSIVE Offset(_, _)
\* byte offset, in the instruction section, of what the tokens from index i on
\* emit: the sizes of the tokens before i
Offset(t, i) == IF i <= 1 THEN 0 ELSE Offset(t, i - 1) + Size(t[i - 1])

\* both passes over the tokens succeeded
Compiled ==
    pc \notin {"compile", "preprocess", "verify", "compile_failed", "compile_panic",
               "serialize"}
    /\ Len(src) > 1

(***************************************************************************)
(* C1.  For every `if { A } else { B }` of a program that compiles, at any *)
(* nesting depth, after the backpatch pass the If token's jump target is   *)
(* the byte offset of the first instruction of B and the Else token's jump *)
(* target is the byte offset of the instruction that follows B's closing   *)
(* brace.  Stated of the programs whose blocks are all bodies of an if or  *)
(* of an else.                                                             *)
(***************************************************************************)
C1_IfElseTargets ==
    (Compiled /\ Structured(src)) =>
        \A i \in 1..Len(src) :
            IfElseAt(src, i) =>
                LET j == Match(src, i + 1)
                    k == Match(src, j + 2)
                IN  /\ tokens[i] = Jump("If", Offset(src, j + 3))
                    /\ tokens[j + 1] = Jump("Else", Offset(src, k + 1))

(***************************************************************************)
(* C2.  For every `if { ... }` with no following else of a program that    *)
(* compiles, at the top level, inside an if body or inside an else body,   *)
(* the token stays an If and its jump target is the byte offset of the     *)
(* instruction after its closing brace.  Stated of the programs whose      *)
(* blocks are all bodies of an if or of an else.                           *)
(***************************************************************************)
C2_IfTarget ==
    (Compiled /\ Structured(src)) =>
        \A i \in 1..Len(src) :
            (IfBlockAt(src, i) /\ ~IsOp(src[Match(src, i + 1) + 1], "Else")) =>
                tokens[i] = Jump("If", Offset(src, Match(src, i + 1) + 1))

\* the VM is past loading and has not crashed or failed
Running == pc \in {"execute", "finished"}

\* the jump target carried by the If or Else at ip
Target == isize_from_ne_bytes(Operand, endian)

(***************************************************************************)
(* C3.  An executed Else jumps to its target if and only if the most       *)
(* recently executed If continued into its body; so of every               *)
(* `cond if { A } else { B }` whose If was executed, wherever it stands in *)
(* the program, exactly one of A and B is executed.                        *)
(***************************************************************************)
C3_ElseFollowsLastIf ==
    /\ (Running /\ last.op = "Else") => (last.jumped <=> last.truthy)
    /\ (pc = "finished" /\ Structured(src)) =>
        \A i \in 1..Len(src) :
            (IfElseAt(src, i) /\ Offset(src, i) \in executed) =>
                LET j == Match(src, i + 1)
                    k == Match(src, j + 2)
                IN  (j > i + 2 /\ k > j + 3) =>
                        (Offset(src, i + 2) \in executed) # (Offset(src, j + 3) \in executed)

(***************************************************************************)
(* C4.  Executing If pops one condition value and moves ip past the 8-byte *)
(* operand; on any non-zero integer condition execution continues with the *)
(* if body, on zero ip becomes the If's jump target.                       *)
(***************************************************************************)
C4_IfNonZeroContinues ==
    [][(/\ Fetching({"If"})
        /\ stack # <<>>
        /\ Top(stack).tag = "Int32"
        /\ HasOperand
        /\ Target < Len(vm_bytes))
       => /\ stack' = Pop(stack)
          /\ pc' = "execute"
          /\ ip' = IF Top(stack).n # 0 THEN ip + 9 ELSE Target]_vars

\* the value pushed earlier and the value on top of the stack
Earlier == stack[Len(stack) - 1]
Later == stack[Len(stack)]

\* q is the quotient of a by b rounded towards zero
IsQuotient(q, a, b) ==
    LET rem == a - q * b
    IN  /\ (IF rem < 0 THEN -rem ELSE rem) < (IF b < 0 THEN -b ELSE b)
        /\ rem = 0 \/ (rem > 0) = (a > 0)

\* r is `a op b` on integers that do not leave the 32-bit range
IsResult(r, op, a, b) ==
    /\ r.tag = "Int32"
    /\ CASE op = "Add" -> ~AddOverflows(a, b) => r.n = a + b
         [] op = "Sub" -> ~SubOverflows(a, b) => r.n = a - b
         [] op = "Mul" -> ~MulOverflows(a, b) => r.n = a * b
         [] op = "Div" -> IsQuotient(r.n, a, b)

(***************************************************************************)
(* C5.  An Add, Sub, Mul or Div that completes replaces the two topmost    *)
(* values by one result, lhs op rhs with lhs the value pushed earlier and  *)
(* rhs the value on top: on two integers the sum, difference, product or   *)
(* quotient rounded towards zero, on two strings (Add) the concatenation.  *)
(* The depth falls by one and the values below are unchanged.              *)
(***************************************************************************)
C5_ArithmeticStep ==
    [][(Fetching(ArithOps) /\ Len(stack) >= 2 /\ pc' = "execute") =>
        /\ Len(stack') = Len(stack) - 1
        /\ SubSeq(stack', 1, Len(stack) - 2) = SubSeq(stack, 1, Len(stack) - 2)
        /\ (Earlier.tag = "Int32" /\ Later.tag = "Int32") =>
                IsResult(stack'[Len(stack')], opcode, Earlier.n, Later.n)
        /\ (Earlier.tag = "String" /\ Later.tag = "String") =>
                stack'[Len(stack')] = String(Earlier.s \o Later.s)]_vars

\* `10 3 -` has executed its Sub and left the single value Int32(7)
C5_Witness ==
    /\ src = <<Lit(Int32(10)), Lit(Int32(3)), Instr("Sub"), EofTok>>
    /\ last.op = "Sub"
    /\ pc = "execute"
    /\ stack = <<Int32(7)>>

\* a proper prefix
IsProperPrefix(s, t) == Len(s) < Len(t) /\ s = SubSeq(t, 1, Len(s))

(***************************************************************************)
(* C6.  Executing Div with integer zero on top of the stack is fatal: the  *)
(* step ends in a panic, pushes no value (the stack only loses operands),  *)
(* and no step follows a panic.                                            *)
(***************************************************************************)
C6_DivByZeroFatal ==
    /\ [][(Fetching({"Div"}) /\ stack # <<>> /\ Later.tag \in {"Int32", "UInt32"} /\ Later.n = 0) =>
            (pc' = "vm_panic" /\ IsProperPrefix(stack', stack))]_vars
    /\ [][pc # "vm_panic"]_vars

\* `10 0 /` has panicked in its Div
C6_Witness ==
    /\ src = <<Lit(Int32(10)), Lit(Int32(0)), Instr("Div"), EofTok>>
    /\ pc = "vm_panic"
    /\ last.op = "Div"
    /\ stack = <<>>

\* the 8 native-endian bytes of a number below 65536
Word(n, e) ==
    IF e = "le" THEN <<n % 256, n \div 256, 0, 0, 0, 0, 0, 0>>
    ELSE <<0, 0, 0, 0, 0, 0, n \div 256, n % 256>>

\* the instruction a token is emitted as
Emitted(token) ==
    CASE token.typ3 = "Value" -> "Push"
      [] token.typ3 = "Eof" -> "Halt"
      [] OTHER -> token.op

\* offset of the Halt the Eof token emits
HaltOffset == Offset(tokens, Len(tokens))

\* the loader has split the file
Split == pc \in {"load_constants", "loaded", "execute", "finished", "vm_panic", "vm_failed"}

\* the loader has decoded the pool
Loaded == pc \in {"loaded", "execute", "finished", "vm_failed"} \/ (pc = "vm_panic" /\ last.op # "None")

(***************************************************************************)
(* C7.  In the file of a successful compilation the 8-byte header is the   *)
(* offset of the Halt opcode, Halt is the last byte of the instruction     *)
(* section and the pool follows it.  The loader never fails on that file:  *)
(* it recovers exactly the instruction bytes and, in order, the pool the   *)
(* compiler emitted; execution starts at ip = 0, and every emitting token  *)
(* has its opcode byte at the offset the first pass counted for it.        *)
(***************************************************************************)
C7_HeaderAndLoader ==
    /\ file.exists =>
        /\ Take(file.bytes, 8) = Word(HaltOffset, endian)
        /\ file.bytes[8 + HaltOffset + 1] = as_byte("Halt")
        /\ Drop(file.bytes, 8 + HaltOffset + 1) = constants_to_bytes(byte_code.constants, endian)
        /\ cip = HaltOffset
    /\ pc # "load_failed"
    /\ pc = "vm_panic" => last.op # "None"
    /\ Split =>
        /\ vm_bytes = SubSeq(file.bytes, 9, 8 + HaltOffset + 1)
        /\ \A i \in 1..Len(tokens) :
            Emits(tokens[i]) => vm_bytes[Offset(tokens, i) + 1] = as_byte(Emitted(tokens[i]))
    /\ Loaded => vm_constants = byte_code.constants
    /\ pc = "loaded" => ip = 0 /\ stack = <<>>

\* a program with a jump and two literals is loaded
C7_Witness ==
    /\ pc = "loaded"
    /\ Len(vm_constants) >= 2
    /\ \E i \in 1..Len(tokens) : IsOp(tokens[i], "If") /\ tokens[i].addr > 0
    /\ vm_bytes[Len(vm_bytes)] = as_byte("Halt")

(***************************************************************************)
(* C8.  Pool serialization round-trips: load_constants applied to          *)
(* constants_to_bytes(pool) never fails and yields the same values in the  *)
(* same order.  Every entry starts with its type tag (Int32 0, UInt32 1,   *)
(* String 2) followed by 4 integer bytes, or by an 8-byte length and that  *)
(* many string bytes: "ab" is tag 2, length 2, bytes 0x61 0x62.            *)
(***************************************************************************)
C8_PoolRoundTrip ==
    /\ pc \notin {"vm_panic", "load_failed"}
    /\ pc = "loaded" => vm_constants = byte_code.constants /\ constant_bytes = <<>>
    /\ (pc = "load_constants" /\ constant_bytes # <<>>) =>
        LET v == byte_code.constants[Len(vm_constants) + 1]
            tag == CASE v.tag = "Int32" -> 0 [] v.tag = "UInt32" -> 1 [] v.tag = "String" -> 2
        IN  /\ constant_bytes[1] = tag
            /\ tag \in {0, 1} => Len(constant_bytes) >= 5
            /\ tag = 2 =>
                /\ SubSeq(constant_bytes, 2, 9) = Word(Len(as_bytes(v.s)), endian)
                /\ SubSeq(constant_bytes, 10, 9 + Len(as_bytes(v.s))) = as_bytes(v.s)
            /\ v = Int32(-1) => SubSeq(constant_bytes, 2, 5) = <<255, 255, 255, 255>>
            /\ v = UInt32(0) => SubSeq(constant_bytes, 2, 5) = <<0, 0, 0, 0>>
            /\ (v = Int32(I32Max) /\ endian = "le") => SubSeq(constant_bytes, 2, 5) = <<255, 255, 255, 127>>
            /\ (v = Int32(I32Min) /\ endian = "be") => SubSeq(constant_bytes, 2, 5) = <<128, 0, 0, 0>>
    /\ (pc = "load_constants" /\ vm_constants = <<>> /\ endian = "le"
            /\ byte_code.constants = <<String(<<97, 98>>)>>) =>
        constant_bytes = <<2, 2, 0, 0, 0, 0, 0, 0, 0, 97, 98>>

\* a pool of a two-byte character string and a negative integer is reloaded
C8_Witness ==
    /\ pc = "loaded"
    /\ byte_code.constants = <<String(<<233, 97>>), Int32(-1)>>
    /\ vm_constants = <<String(<<233, 97>>), Int32(-1)>>

\* number of literal tokens before index i
LiteralsBefore(t, i) == Cardinality({j \in 1..(i - 1) : t[j].typ3 = "Value"})

\* the ByteCode has been emitted
EmittedCode == pc \notin {"compile", "preprocess", "verify", "emit", "compile_failed",
                          "compile_panic", "serialize"}

(***************************************************************************)
(* C9.  In every emitted ByteCode the k-th literal token (from 0) is a     *)
(* Push whose operand is k, pool entry k is the literal's value and the    *)
(* pool has one entry per literal, so every Push index is below the pool   *)
(* length; the VM never faults reading a constant.                         *)
(***************************************************************************)
C9_PushIndex ==
    /\ EmittedCode =>
        /\ Len(byte_code.constants) = LiteralsBefore(tokens, Len(tokens))
        /\ \A i \in 1..Len(tokens) :
            tokens[i].typ3 = "Value" =>
                LET k == LiteralsBefore(tokens, i)
                    at == 8 + Offset(tokens, i)
                IN  /\ byte_code.bytes[at + 1] = as_byte("Push")
                    /\ SubSeq(byte_code.bytes, at + 2, at + 9) = Word(k, endian)
                    /\ k < Len(byte_code.constants)
                    /\ byte_code.constants[k + 1] = tokens[i].value
    /\ pc = "vm_panic" => last.op # "Push"
    /\ (pc = "execute" /\ last.op = "Push") =>
        \E i \in 1..Len(tokens) :
            /\ tokens[i].typ3 = "Value"
            /\ Offset(tokens, i) = last.at
            /\ Top(stack) = tokens[i].value

\* the third literal of a program has been pushed
C9_Witness ==
    /\ pc = "execute"
    /\ last.op = "Push"
    /\ last.at = 18
    /\ Len(stack) = 3
    /\ stack[3] # stack[1]

(***************************************************************************)
(* C10.  In every successfully compiled program each If and Else jump      *)
(* target lies in 0..(Halt offset) and is the offset of an opcode byte;    *)
(* executing the program never raises the out-of-bounds jump fault.        *)
(***************************************************************************)
C10_JumpTargets ==
    /\ Compiled =>
        \A i \in 1..Len(tokens) :
            (IsOp(tokens[i], "If") \/ IsOp(tokens[i], "Else")) =>
                /\ 0 <= tokens[i].addr
                /\ tokens[i].addr <= HaltOffset
                /\ \E j \in 1..Len(tokens) :
                    Emits(tokens[j]) /\ Offset(tokens, j) = tokens[i].addr
    /\ pc # "vm_failed"
    /\ result.err # "SegFault"

\* an If has jumped to the Halt that ends the program
C10_Witness ==
    /\ pc = "execute"
    /\ last.op = "If"
    /\ last.jumped
    /\ ip = HaltOffset
    /\ ip > 9

\* t[i] is an If or Else token
IsJump(t, i) == IsOp(t[i], "If") \/ IsOp(t[i], "Else")

\* indices of the If and Else tokens that still carry a negative payload
Pending(t) == {i \in 1..Len(t) : IsJump(t, i) /\ t[i].addr < 0}

(***************************************************************************)
(* C11.  A compilation gets past verification only if every If and Else    *)
(* token has a payload >= 0 after backpatching; if one still carries -1    *)
(* (as the If of `1 if 2 .`), verification fails with a CompileError that  *)
(* names the first such token, and nothing is emitted or written.          *)
(***************************************************************************)
C11_UnresolvedRejected ==
    /\ [](Compiled => Pending(tokens) = {})
    /\ [][(pc = "verify" /\ Pending(tokens) # {}) =>
            /\ pc' = "compile_failed"
            /\ result'.err = "CompileError"
            /\ Len(result'.at) = 1
            /\ result'.at[1] \in Pending(tokens)
            /\ \A i \in Pending(tokens) : result'.at[1] <= i
            /\ byte_code' = NoByteCode
            /\ file' = NoFile]_vars

\* `1 if 1 .` has been rejected at its If
C11_Witness ==
    /\ src = <<Lit(Int32(1)), IfTok, Lit(Int32(1)), DumpTok, EofTok>>
    /\ pc = "compile_failed"
    /\ result = Failure("CompileError", <<2>>)

\* indices of the Error tokens
ErrorIndices(t) == {i \in 1..Len(t) : t[i].typ3 = "Error"}

(***************************************************************************)
(* C12.  If the token stream holds an Error token anywhere, compile        *)
(* returns a ParseError listing every Error token once, in source order,   *)
(* and returns before the backpatch pass and before any emission: no token *)
(* is rewritten, no address is counted, no byte is emitted or written.     *)
(***************************************************************************)
C12_ParseErrorFirst ==
    /\ [](ErrorIndices(src) # {} =>
            /\ pc \in {"compile", "compile_failed"}
            /\ tokens = src
            /\ cip = 0 /\ count = 0 /\ cstack = <<>>
            /\ byte_code = NoByteCode
            /\ file = NoFile)
    /\ [][(pc = "compile" /\ ErrorIndices(tokens) # {}) =>
            /\ pc' = "compile_failed"
            /\ result'.err = "ParseError"
            /\ Len(result'.at) = Cardinality(ErrorIndices(tokens))
            /\ {result'.at[k] : k \in 1..Len(result'.at)} = ErrorIndices(tokens)
            /\ \A k \in 1..(Len(result'.at) - 1) : result'.at[k] < result'.at[k + 1]]_vars

\* two Error tokens around a literal have both been reported
C12_Witness ==
    /\ src = <<ErrorTok, Lit(Int32(1)), ErrorTok, EofTok>>
    /\ pc = "compile_failed"
    /\ result = Failure("ParseError", <<1, 3>>)

(***************************************************************************)
(* C13.  A program compiles only if each of its `}` closes the block of an *)
(* if or of an else: a stray `}`, or one that closes a plain `{ ... }`     *)
(* block, is a compile error.                                              *)
(***************************************************************************)
C13_StrayCloseRejected ==
    Compiled =>
        \A i \in 1..Len(src) :
            src[i].typ3 = "RBrace" =>
                \E j \in 2..(i - 1) :
                    /\ src[j].typ3 = "LBrace"
                    /\ IsJump(src, j - 1)
                    /\ Match(src, j) = i

(***************************************************************************)
(* The VM on a file it did not necessarily get from the compiler:          *)
(* load_binary and execute applied to hand-made binaries, among them       *)
(* empty and truncated files, headers that disagree with the file length,  *)
(* and jumps whose target lies at or past the end of the instructions.     *)
(***************************************************************************)
MaxHeader == 2      \* largest halt_index declared by a hand-made header
MaxPast == 1        \* how far past the last instruction a jump target may lie

\* one instruction with its 8-byte operand
PushAt(k, e) == <<as_byte("Push")>> \o to_ne_bytes(k, 8, e)
JumpTo(op, to, e) == <<as_byte(op)>> \o to_ne_bytes(to, 8, e)

\* a header that agrees with the instructions, the instructions, the pool
Binary(code, constants, e) ==
    to_ne_bytes(Len(code) - 1, 8, e) \o code \o constants_to_bytes(constants, e)

\* jump targets around the end of a stream of n bytes, and -1
TargetsNear(n) == ((n - 1)..(n + MaxPast)) \cup {-1}

\* `c if`: a lone If that jumps when c is not 1
IfPrograms(e) ==
    {Binary(PushAt(0, e) \o JumpTo("If", to, e) \o <<as_byte("Halt")>>, <<Int32(c)>>, e) :
        c \in {0, 1}, to \in TargetsNear(19)}

\* `1 if else`: the Else jumps because the If continued
ElsePrograms(e) ==
    {Binary(PushAt(0, e) \o JumpTo("If", 18, e) \o JumpTo("Else", to, e)
                \o <<as_byte("Halt")>>, <<Int32(1)>>, e) :
        to \in TargetsNear(28)}

\* `2 2 + 4 = .`
PlainProgram(e) ==
    Binary(PushAt(0, e) \o PushAt(0, e) \o <<as_byte("Add")>> \o PushAt(1, e)
               \o <<as_byte("Eq"), as_byte("Dump"), as_byte("Halt")>>,
           <<Int32(2), Int32(4)>>, e)

\* files shorter than a header, and headers in front of too few instructions
ShortFiles == {<<>>, <<17>>, <<0, 0, 0>>, <<1, 0, 0, 0, 0, 0, 0>>}
HeaderFiles(e) ==
    {to_ne_bytes(h, 8, e) \o code :
        h \in 0..MaxHeader, code \in {<<>>, <<as_byte("Halt")>>}}
    \cup {usize_MAX \o <<as_byte("Halt")>>}

Binaries(e) ==
    ShortFiles \cup HeaderFiles(e) \cup IfPrograms(e) \cup ElsePrograms(e)
        \cup {PlainProgram(e)}

InitVM ==
    /\ src = <<>>
    /\ tokens = <<>>
    /\ pc = "compiled"
    /\ endian \in Endians
    /\ build = "unset"
    /\ count = 0
    /\ cip = 0
    /\ cstack = <<>>
    /\ hit_else_block = FALSE
    /\ byte_code = NoByteCode
    /\ result = NoResult
    /\ file \in {[exists |-> TRUE, bytes |-> b] : b \in Binaries(endian)}
    /\ constant_bytes = <<>>
    /\ vm_bytes = <<>>
    /\ vm_constants = <<>>
    /\ stack = <<>>
    /\ ip = 0
    /\ jmp_to_end = FALSE
    /\ last = NoLast
    /\ executed = {}
    /\ dump = <<>>
    /\ trace = <<>>
    /\ Unlexed

NextVM ==
    \/ LoadBinary
    \/ LoadConstants
    \/ Execute
    \/ ExecutePush
    \/ ExecuteArith
    \/ ExecuteCompare
    \/ ExecuteIf
    \/ ExecuteElse
    \/ ExecuteDump
    \/ ExecuteHalt

SpecVM == InitVM /\ [][NextVM]_vars

\* the step executes an If or an Else that jumps: an If whose condition is
\* not 1, an Else that follows an If whose condition was 1
JumpIssued ==
    /\ pc = "execute" /\ ~is_at_end /\ HasOperand
    /\ \/ /\ opcode = "If"
          /\ stack # <<>>
          /\ Top(stack).tag # "String"
          /\ Top(stack).n # 1
       \/ opcode = "Else" /\ jmp_to_end

(***************************************************************************)
(* C14.  A jump that is executed with a target at or past the end of the   *)
(* instructions (a target equal to their length included) ends execution   *)
(* with the out-of-bounds fault: ip is not set to the target, no further   *)
(* instruction runs, and the fault names the ip of the If or Else that     *)
(* issued the jump.                                                        *)
(***************************************************************************)
C14_JumpOutOfBounds ==
    [][(JumpIssued /\ as_usize(Target) >= Len(vm_bytes)) =>
            /\ pc' = "vm_failed"
            /\ result' = Failure("SegFault", <<ip>>)
            /\ ip' # as_usize(Target)]_vars

(***************************************************************************)
(* C15.  Loading a file of zero bytes returns CorruptedBinary; the VM's    *)
(* instructions, constant pool, stack and ip stay as they were, and no     *)
(* instruction is ever executed.                                           *)
(***************************************************************************)
C15_EmptyBinary ==
    /\ [][(pc = "compiled" /\ file.bytes = <<>>) =>
            /\ pc' = "load_failed"
            /\ result' = Failure("CorruptedBinary", <<>>)
            /\ UNCHANGED <<vm_bytes, vm_constants, constant_bytes, stack, ip>>]_vars
    /\ []((file.exists /\ file.bytes = <<>>) =>
            /\ pc \in {"compiled", "load_failed"}
            /\ executed = {}
            /\ trace = <<>>
            /\ vm_bytes = <<>> /\ vm_constants = <<>> /\ stack = <<>> /\ ip = 0)

\* the empty file has been refused
C15_Witness ==
    /\ file.exists
    /\ file.bytes = <<>>
    /\ pc = "load_failed"
    /\ result = Failure("CorruptedBinary", <<>>)

\* the file is too short for a header, or its header names a Halt that is
\* not in the file
InconsistentHeader(bytes) ==
    \/ Len(bytes) < 8
    \/ usize_from_ne_bytes(SubSeq(bytes, 1, 8), endian) = Huge
    \/ 8 + usize_from_ne_bytes(SubSeq(bytes, 1, 8), endian) + 1 > Len(bytes)

(***************************************************************************)
(* C16.  load_binary returns a load error, and does not crash, for every   *)
(* non-empty file that is shorter than the 8-byte header or whose header   *)
(* declares a halt_index with 8 + halt_index + 1 beyond the file length.   *)
(***************************************************************************)
C16_InconsistentHeaderRejected ==
    [][(pc = "compiled" /\ file.bytes # <<>> /\ InconsistentHeader(file.bytes)) =>
            pc' = "load_failed"]_vars

RECURSIVE IsSubsequence(_, _)
\* the elements of a occur in b, in the order of a
IsSubsequence(a, b) ==
    IF a = <<>> THEN TRUE
    ELSE IF b = <<>> THEN FALSE
    ELSE IF Head(a) = Head(b) THEN IsSubsequence(Tail(a), Tail(b))
    ELSE IsSubsequence(a, Tail(b))

\* execution went through every instruction of the program
AllRan == \A i \in 1..Len(tokens) : Emits(tokens[i]) => Offset(tokens, i) \in executed

\* execute has returned or crashed
Ended == pc \in {"finished", "vm_failed", "vm_panic"}

Payloads(op) == IF op \in {"If", "Else", "Do", "RBrace"} THEN {-1, 0, 9} ELSE {-1}

InitOpCode ==
    /\ src = <<>>
    /\ \/ /\ pc = "decode"
          /\ vm_bytes \in {<<b>> : b \in 0..255}
          /\ tokens = <<>>
       \/ /\ pc = "encode"
          /\ vm_bytes = <<>>
          /\ tokens \in {<<Jump(OpCodes[i], addr)>> : i \in 1..Len(OpCodes), addr \in {-1, 0, 9}}
          /\ tokens[1].addr \in Payloads(tokens[1].op)
    /\ endian = "unset"
    /\ build = "unset"
    /\ count = 0
    /\ cip = 0
    /\ cstack = <<>>
    /\ hit_else_block = FALSE
    /\ byte_code = NoByteCode
    /\ result = NoResult
    /\ file = NoFile
    /\ constant_bytes = <<>>
    /\ vm_constants = <<>>
    /\ stack = <<>>
    /\ ip = 0
    /\ jmp_to_end = FALSE
    /\ last = NoLast
    /\ executed = {}
    /\ dump = <<>>
    /\ trace = <<>>
    /\ Unlexed

\* OpCode::from applied to the byte written last
DecodeByte ==
    /\ pc \in {"decode", "encoded"}
    /\ LET op == OpCodeFrom(vm_bytes[Len(vm_bytes)])
       IN  IF op = "unreachable"
           THEN /\ pc' = "decode_panic"
                /\ result' = Failure("panic", <<>>)
                /\ UNCHANGED tokens
           ELSE /\ tokens' = Append(tokens, Instr(op))
                /\ pc' = IF pc = "decode" THEN "decoded" ELSE "round_trip"
                /\ UNCHANGED result
    /\ UNCHANGED <<src, lexer_vars, endian, build, count, cip, cstack, hit_else_block,
                   byte_code, file, dump, vm_vars>>

\* as_byte applied to the opcode obtained last
EncodeOp ==
    /\ pc \in {"encode", "decoded"}
    /\ vm_bytes' = Append(vm_bytes, as_byte(tokens[Len(tokens)].op))
    /\ pc' = IF pc = "encode" THEN "encoded" ELSE "round_trip"
    /\ UNCHANGED <<src, lexer_vars, result, endian, build, compiler_vars, constant_bytes,
                   vm_constants, stack, ip, jmp_to_end, last, executed, trace>>

NextOpCode == DecodeByte \/ EncodeOp

SpecOpCode == InitOpCode /\ [][NextOpCode]_vars

(***************************************************************************)
(* C18.  OpCode::from is the exact inverse of as_byte: every byte b in     *)
(* 0..=19 decodes (no panic) to an opcode that as_byte encodes as b again, *)
(* every opcode is encoded to a byte that decodes to an opcode of the same *)
(* kind, and two different kinds never have the same byte.                 *)
(***************************************************************************)
C18_DecodeInvertsEncode ==
    /\ pc = "decode_panic" => vm_bytes[1] > 19
    /\ (pc = "decoded" /\ vm_bytes[1] <= 19) => \E i \in 1..Len(OpCodes) : OpCodes[i] = tokens[1].op
    /\ (pc = "round_trip" /\ Len(vm_bytes) = 2) => vm_bytes[2] = vm_bytes[1]
    /\ pc = "encoded" => vm_bytes[1] \in 0..19
    /\ (pc = "round_trip" /\ Len(tokens) = 2) => tokens[2].op = tokens[1].op
    /\ \A i, j \in 1..Len(OpCodes) :
            as_byte(OpCodes[i]) = as_byte(OpCodes[j]) => i = j

\* If(9) went through its byte and came back as an If
C18_Witness ==
    /\ pc = "round_trip"
    /\ tokens = <<Jump("If", 9), Instr("If")>>
    /\ vm_bytes = <<12>>

(***************************************************************************)
(* Lexer (lexer.rs).  chars holds the code points of the source; the       *)
(* String `source` is their UTF-8 bytes.  One action per arm of            *)
(* scan_tokens, each one iteration of its loop; locations[i] is the        *)
(* location of tokens[i].                                                  *)
(***************************************************************************)
MaxChars == 3       \* characters of a source text

Alphabet ==
    {49,            \* 1
     105, 102,      \* i f
     43, 60, 61,    \* + < =
     47,            \* /
     34,            \* "
     32, 10,        \* space, newline
     64,            \* @
     167,           \* section sign: two bytes of UTF-8, not alphabetic
     233}           \* e acute: two bytes of UTF-8, alphabetic

Sources == UNION {[1..n -> Alphabet] : n \in 0..MaxChars}

MaxDigits == 11     \* digits of the longest run of digits

\* runs of the digit 1, and the decimal digits of i32::MAX and of i32::MAX + 1
DigitRuns ==
    {[i \in 1..n |-> 49] : n \in 4..MaxDigits}
    \cup {<<50, 49, 52, 55, 52, 56, 51, 54, 52, 55>>, <<50, 49, 52, 55, 52, 56, 51, 54, 52, 56>>,
          <<49, 32, 50, 49, 52, 55, 52, 56, 51, 54, 52, 56, 43>>}

\* char::is_ascii_digit, char::is_alphabetic (code points below 256)
is_ascii_digit(c) == c \in 48..57
is_alphabetic(c) ==
    c \in (65..90) \cup (97..122) \cup {170, 181, 186} \cup (192..214)
            \cup (216..246) \cup (248..255)

\* utils::get_instruction_set: dup, if, else, while, do
instruction_set ==
    {<<<<100, 117, 112>>, "Dup">>,
     <<<<105, 102>>, "If">>,
     <<<<101, 108, 115, 101>>, "Else">>,
     <<<<119, 104, 105, 108, 101>>, "While">>,
     <<<<100, 111>>, "Do">>}

contains_key(lexeme) == \E kv \in instruction_set : kv[1] = lexeme
get(lexeme) == (CHOOSE kv \in instruction_set : kv[1] = lexeme)[2]

\* the arms of `match c` that push one token for one character
SingleChars == {123, 125, 43, 45, 42, 61, 33, 46}
single_token(c) ==
    CASE c = 123 -> Plain("LBrace")
      [] c = 125 -> Plain("RBrace")
      [] c = 43 -> Instr("Add")
      [] c = 45 -> Instr("Sub")
      [] c = 42 -> Instr("Mul")
      [] c = 61 -> Instr("Eq")
      [] c = 33 -> Instr("Ne")
      [] c = 46 -> Instr("Dump")

\* source.len(): the length of the text in bytes
source_len == Len(as_bytes(chars))

\* Lexer::is_at_end compares the cursor, an index into chars, with the
\* length in bytes
lexer_is_at_end(cur) == cur >= source_len

\* Lexer::peek: '\0' at the end, else chars[cursor]; indexing past chars panics
peek_panics(cur) == ~lexer_is_at_end(cur) /\ cur >= Len(chars)
peek(cur) == IF lexer_is_at_end(cur) \/ cur >= Len(chars) THEN 0 ELSE chars[cur + 1]

\* Lexer::current_lexeme slices the bytes of source with indices into chars:
\* a slice that does not start and end on a character boundary panics
is_char_boundary(k) == \E j \in 0..Len(chars) : Len(as_bytes(SubSeq(chars, 1, j))) = k
lexeme_panics(st, cur) == ~is_char_boundary(st) \/ ~is_char_boundary(cur)
current_lexeme(st, cur) == SubSeq(as_bytes(chars), st + 1, cur)

\* Lexer::cursor_location
cursor_location(cur, ln, ls) == [line |-> ln, column |-> cur - ls]

RECURSIVE parse_i32(_, _)
\* str::parse::<i32> on a run of digits: the value, or -1 for an Err
\* (an overflow, or a byte that is no digit)
parse_i32(bs, acc) ==
    IF bs = <<>> THEN acc
    ELSE IF ~is_ascii_digit(Head(bs)) THEN -1
    ELSE IF acc > (I32Max - (Head(bs) - 48)) \div 10 THEN -1
    ELSE parse_i32(Tail(bs), 10 * acc + (Head(bs) - 48))

RECURSIVE digits_end(_)
\* `while self.peek().is_ascii_digit() { self.advance(); }`
digits_end(cur) ==
    IF peek_panics(cur) THEN [cursor |-> cur, panic |-> TRUE]
    ELSE IF is_ascii_digit(peek(cur)) THEN digits_end(cur + 1)
    ELSE [cursor |-> cur, panic |-> FALSE]

RECURSIVE alphabetic_end(_)
\* `while self.peek().is_alphabetic() && !self.is_at_end() { self.advance(); }`
alphabetic_end(cur) ==
    IF peek_panics(cur) THEN [cursor |-> cur, panic |-> TRUE]
    ELSE IF is_alphabetic(peek(cur)) /\ ~lexer_is_at_end(cur) THEN alphabetic_end(cur + 1)
    ELSE [cursor |-> cur, panic |-> FALSE]

RECURSIVE string_end(_, _, _)
\* the loop of the '"' arm: up to the closing quote or the end, counting lines
string_end(cur, ln, ls) ==
    IF lexer_is_at_end(cur) THEN [cursor |-> cur, line |-> ln, line_start |-> ls, panic |-> FALSE]
    ELSE IF peek_panics(cur) THEN [cursor |-> cur, line |-> ln, line_start |-> ls, panic |-> TRUE]
    ELSE IF peek(cur) = 34 THEN [cursor |-> cur, line |-> ln, line_start |-> ls, panic |-> FALSE]
    ELSE IF peek(cur) = 10 THEN string_end(cur + 1, ln + 1, cur)
    ELSE string_end(cur + 1, ln, ls)

InitLex ==
    /\ chars \in Sources \cup DigitRuns
    /\ cursor = 0
    /\ start = 0
    /\ line = 1
    /\ line_start = 0
    /\ locations = <<>>
    /\ src = <<>>
    /\ tokens = <<>>
    /\ pc = "scan"
    /\ endian = "unset"
    /\ build = "unset"
    /\ Fresh

\* the loop of scan_tokens is about to advance over a character in cs
Scanning(cs) ==
    /\ pc = "scan"
    /\ ~lexer_is_at_end(cursor)
    /\ cursor < Len(chars)
    /\ chars[cursor + 1] \in cs

\* a panic of the lexer: an index past chars, a slice off a character
\* boundary, or the unwrap of a failed parse
LexPanic ==
    /\ pc' = "lex_panic"
    /\ result' = Failure("panic", <<>>)
    /\ UNCHANGED <<cursor, start, line, line_start, tokens, locations>>

\* tokens.push of a token made with the cursor at cur
PushToken(token, cur, ln, ls) ==
    /\ tokens' = Append(tokens, token)
    /\ locations' = Append(locations, cursor_location(cur, ln, ls))
    /\ start' = cursor
    /\ cursor' = cur
    /\ line' = ln
    /\ line_start' = ls
    /\ UNCHANGED <<pc, result>>

\* an iteration that pushes nothing
Skip(cur, ln, ls) ==
    /\ start' = cursor
    /\ cursor' = cur
    /\ line' = ln
    /\ line_start' = ls
    /\ UNCHANGED <<pc, result, tokens, locations>>

\* make_token(typ3, self.current_lexeme())
MakeToken(token, cur) ==
    IF lexeme_panics(cursor, cur) THEN LexPanic
    ELSE PushToken(token, cur, line, line_start)

LexFrame ==
    UNCHANGED <<src, chars, endian, build, count, cip, cstack, hit_else_block,
                byte_code, file, dump, vm_vars>>

\* scan_tokens, lines 38-40, when the byte length lets the loop run past the
\* last character: advance indexes chars out of bounds
ScanPastEnd ==
    /\ pc = "scan"
    /\ ~lexer_is_at_end(cursor)
    /\ cursor >= Len(chars)
    /\ LexPanic
    /\ LexFrame

\* scan_tokens, lines 42-51: a run of digits
ScanNumber ==
    /\ Scanning({c \in 0..255 : is_ascii_digit(c)})
    /\ LET e == digits_end(cursor + 1)
           value == parse_i32(current_lexeme(cursor, e.cursor), 0)
       IN  IF e.panic \/ lexeme_panics(cursor, e.cursor) \/ value < 0
           THEN LexPanic
           ELSE PushToken(Lit(Int32(value)), e.cursor, line, line_start)
    /\ LexFrame

\* scan_tokens, lines 52-68: an alphabetic run, a keyword or an unknown
\* identifier
ScanIdentifier ==
    /\ Scanning({c \in 0..255 : is_alphabetic(c)})
    /\ LET e == alphabetic_end(cursor + 1)
           lexeme == current_lexeme(cursor, e.cursor)
       IN  IF e.panic \/ lexeme_panics(cursor, e.cursor)
           THEN LexPanic
           ELSE IF contains_key(lexeme)
           THEN PushToken(Instr(get(lexeme)), e.cursor, line, line_start)
           ELSE PushToken(ErrorTok, e.cursor, line, line_start)
    /\ LexFrame

\* scan_tokens: the arms { } + - * = ! .
ScanSingle ==
    /\ Scanning(SingleChars)
    /\ MakeToken(single_token(chars[cursor + 1]), cursor + 1)
    /\ LexFrame

\* scan_tokens, lines 105-126: < <= > >=
ScanCompare ==
    /\ Scanning({60, 62})
    /\ LET c == chars[cursor + 1]
       IN  IF peek_panics(cursor + 1) THEN LexPanic
           ELSE IF peek(cursor + 1) = 61
           THEN MakeToken(Instr(IF c = 60 THEN "Lte" ELSE "Gte"), cursor + 2)
           ELSE MakeToken(Instr(IF c = 60 THEN "Lt" ELSE "Gt"), cursor + 1)
    /\ LexFrame

\* scan_tokens, lines 96-104: `/`, and `//` whose arm is empty
ScanSlash ==
    /\ Scanning({47})
    /\ IF peek_panics(cursor + 1) THEN LexPanic
       ELSE IF peek(cursor + 1) = 47
       THEN Skip(cursor + 2, line, line_start)
       ELSE MakeToken(Instr("Div"), cursor + 1)
    /\ LexFrame

\* scan_tokens, lines 142-166: a string literal
ScanString ==
    /\ Scanning({34})
    /\ LET e == string_end(cursor + 1, line, line_start)
       IN  IF e.panic \/ peek_panics(e.cursor) THEN LexPanic
           ELSE IF peek(e.cursor) # 34
           THEN PushToken(ErrorTok, e.cursor, e.line, e.line_start)
           ELSE IF lexeme_panics(cursor, e.cursor + 1) THEN LexPanic
           ELSE LET lexeme == current_lexeme(cursor, e.cursor + 1)
                    text == SubSeq(lexeme, 2, Len(lexeme) - 1)
                IN  PushToken(Lit(String(from_utf8(text))), e.cursor + 1, e.line,
                              e.line_start)
    /\ LexFrame

\* scan_tokens, lines 167-171: blanks, and a newline that starts a line
ScanBlank ==
    /\ Scanning({13, 9, 32, 10})
    /\ IF chars[cursor + 1] = 10
       THEN Skip(cursor + 1, line + 1, cursor + 1)
       ELSE Skip(cursor + 1, line, line_start)
    /\ LexFrame

\* the characters no arm of scan_tokens knows
Unexpected ==
    {c \in 0..255 : /\ ~is_ascii_digit(c)
                    /\ ~is_alphabetic(c)
                    /\ c \notin SingleChars \cup {60, 62, 47, 34, 13, 9, 32, 10}}

\* scan_tokens, lines 172-175: any other character
ScanUnexpected ==
    /\ Scanning(Unexpected)
    /\ PushToken(ErrorTok, cursor + 1, line, line_start)
    /\ LexFrame

\* a scan that returns its tokens without an Eof token
ScanEof_silent ==
    /\ pc = "scan"
    /\ lexer_is_at_end(cursor)
    /\ pc' = "scanned"
    /\ UNCHANGED <<result, cursor, start, line, line_start, tokens, locations>>
    /\ LexFrame

\* scan_tokens, lines 179-182: the Eof token after the loop
ScanEof ==
    /\ pc = "scan"
    /\ lexer_is_at_end(cursor)
    /\ IF lexeme_panics(start, cursor)
       THEN LexPanic
       ELSE /\ tokens' = Append(tokens, EofTok)
            /\ locations' = Append(locations, cursor_location(cursor, line, line_start))
            /\ pc' = "scanned"
            /\ UNCHANGED <<result, cursor, start, line, line_start>>
    /\ LexFrame

NextLex ==
    \/ ScanPastEnd
    \/ ScanNumber
    \/ ScanIdentifier
    \/ ScanSingle
    \/ ScanCompare
    \/ ScanSlash
    \/ ScanString
    \/ ScanBlank
    \/ ScanUnexpected
    \/ ScanEof

SpecLex == InitLex /\ [][NextLex]_vars

\* the alphabetic run that starts at chars[i]
RunFrom(i) ==
    LET k == CHOOSE k \in i..Len(chars) :
                /\ \A j \in i..k : is_alphabetic(chars[j])
                /\ k = Len(chars) \/ ~is_alphabetic(chars[k + 1])
    IN  SubSeq(chars, i, k)

\* the character the loop is about to scan is one no arm knows, or starts
\* an alphabetic run that is not a keyword
AtLexError ==
    /\ pc = "scan"
    /\ cursor < Len(chars)
    /\ \/ chars[cursor + 1] \in Unexpected
       \/ is_alphabetic(chars[cursor + 1]) /\ ~contains_key(RunFrom(cursor + 1))

(***************************************************************************)
(* C19.  Every unrecognized character and every alphabetic run that is     *)
(* not a keyword yields exactly one Error token, in its place in the token *)
(* order, and the scan goes on: it does not stop or crash at the error or  *)
(* after it.                                                               *)
(***************************************************************************)
C19_ErrorsCollected ==
    /\ [][AtLexError =>
            /\ tokens' = Append(tokens, ErrorTok)
            /\ pc' = "scan"
            /\ cursor' > cursor]_vars
    /\ []((\E i \in 1..Len(tokens) : tokens[i] = ErrorTok) => pc # "lex_panic")

\* chars[cur] lies behind a `//` of its line
InComment(cur) ==
    \E k \in 0..(cur - 2) :
        /\ chars[k + 1] = 47 /\ chars[k + 2] = 47
        /\ \A j \in (k + 1)..cur : chars[j] # 10

\* a text of ASCII characters without string literals
PlainText == \A i \in 1..Len(chars) : chars[i] < 128 /\ chars[i] # 34

(***************************************************************************)
(* C20.  In a text without string literals, no token is emitted for `//`   *)
(* nor for any character between it and the end of its line; a `/` that is *)
(* not followed by `/` (and not in a comment) emits exactly one Div token. *)
(***************************************************************************)
C20_CommentToEndOfLine ==
    [][(pc = "scan" /\ PlainText /\ cursor < Len(chars)) =>
            IF InComment(cursor)
            THEN tokens' = tokens
            ELSE chars[cursor + 1] = 47 =>
                    IF cursor + 1 < Len(chars) /\ chars[cursor + 2] = 47
                    THEN tokens' = tokens
                    ELSE tokens' = Append(tokens, Instr("Div"))]_vars

(***************************************************************************)
(* C21.  The token sequence that scan_tokens returns holds exactly one Eof *)
(* token and it is the last one, for the empty source and for a source     *)
(* that ends in an unterminated string as for any other; while the loop    *)
(* runs no Eof token has been pushed.                                      *)
(***************************************************************************)
C21_OneEofLast ==
    /\ pc = "scan" => \A i \in 1..Len(tokens) : tokens[i] # EofTok
    /\ pc = "scanned" =>
        /\ Len(tokens) >= 1
        /\ tokens[Len(tokens)] = EofTok
        /\ \A i \in 1..(Len(tokens) - 1) : tokens[i] # EofTok
        /\ Len(locations) = Len(tokens)

\* `1"i`: a literal, then a string that is never closed
C21_Witness ==
    /\ chars = <<49, 34, 105>>
    /\ pc = "scanned"
    /\ tokens = <<Lit(Int32(1)), ErrorTok, EofTok>>

\* newlines among the first k characters, and the index of the last of them
Newlines(k) == Cardinality({j \in 1..k : chars[j] = 10})
LastNewline(k) ==
    IF Newlines(k) = 0 THEN 0
    ELSE CHOOSE j \in 1..k : chars[j] = 10 /\ \A i \in (j + 1)..k : chars[i] # 10

(***************************************************************************)
(* C22.  The location of every token is the cursor position right after    *)
(* its lexeme: the line is 1 plus the number of newlines consumed so far,  *)
(* the column is the number of characters consumed since the most recent   *)
(* newline, whether that newline was skipped as whitespace or lies inside  *)
(* a string literal.                                                       *)
(***************************************************************************)
C22_LocationAfterLexeme ==
    [][Len(tokens') = Len(tokens) + 1 =>
            locations'[Len(tokens')] =
                [line |-> 1 + Newlines(cursor'),
                 column |-> cursor' - LastNewline(cursor')]]_vars

(***************************************************************************)
(* C23.  The backpatch pass changes nothing but the jump targets of If and *)
(* Else tokens: the tokens keep their number and order, and every token    *)
(* keeps its kind (an If stays an If, an Else stays an Else) and its       *)
(* value, also when an if is nested inside an else body.  Stated for the   *)
(* well-formed programs that pass both passes.                             *)
(***************************************************************************)
C23_OnlyPayloadsChange ==
    (Compiled /\ Structured(src)) =>
        /\ Len(tokens) = Len(src)
        /\ \A i \in 1..Len(tokens) :
            /\ tokens[i].typ3 = src[i].typ3
            /\ tokens[i].op = src[i].op
            /\ tokens[i].value = src[i].value
            /\ tokens[i].addr # src[i].addr => IsJump(src, i)

\* the instruction bytes emission has written once the first n tokens are done
EmittedLength(n) == Len(EmitTokens(NoByteCode, SubSeq(tokens, 1, n), "le").bytes)

(***************************************************************************)
(* C24.  At every token the first pass visits, its counter ip is the       *)
(* offset in the instruction section at which emission later writes the    *)
(* opcode of that token: plain instructions count 1, literals, If and Else *)
(* 9, and block delimiters 0, in both passes.                              *)
(***************************************************************************)
C24_CounterIsOffset ==
    /\ pc = "preprocess" =>
        /\ cip = EmittedLength(count)
        /\ cip = Offset(tokens, count + 1)
    /\ (pc = "write" /\ byte_code.bytes # <<>>) =>
        \A i \in 1..Len(tokens) :
            Emits(tokens[i]) =>
                /\ Offset(tokens, i) = EmittedLength(i - 1)
                /\ byte_code.bytes[8 + Offset(tokens, i) + 1] = as_byte(Emitted(tokens[i]))

\* the first pass is behind two 9-byte tokens, a brace and a plain instruction
C24_Witness ==
    /\ pc = "preprocess"
    /\ count = 4
    /\ cip = 19
    /\ tokens[3].typ3 = "LBrace"

\* execute has returned Ok, returned a fault or crashed
Terminated == pc \in {"finished", "vm_failed", "vm_panic"}

(***************************************************************************)
(* C25.  In every successfully compiled program the target of each If and  *)
(* Else is strictly greater than the offset of the instruction that        *)
(* carries it, every executed instruction moves ip forward, and so the     *)
(* execution of a loaded program always ends: it reaches Halt (or the end  *)
(* of the instructions) or a fatal fault.                                  *)
(***************************************************************************)
C25_ForwardJumpsTerminate ==
    /\ [](Compiled =>
            \A i \in 1..Len(tokens) : IsJump(tokens, i) => tokens[i].addr > Offset(tokens, i))
    /\ [][pc = "execute" => ip' > ip \/ (pc' = "finished" /\ ip' = ip)]_vars
    /\ (pc = "execute") ~> Terminated

\* a program whose If jumped forward has run to its end
C25_Witness ==
    /\ pc = "finished"
    /\ \E i \in 1..Len(tokens) : IsOp(tokens[i], "If") /\ Offset(tokens, i) \in executed
    /\ \E a \in executed : \E b \in executed : b > a + 9 /\ \A c \in executed : c <= a \/ c >= b
    /\ Len(trace) < Len(dump)

(***************************************************************************)
(* C26.  When the first pass meets an Else while no block is pending, the  *)
(* compilation ends with a returned CompileError that carries the location *)
(* of a token; it neither crashes nor goes on.                             *)
(***************************************************************************)
C26_StrayElseRejected ==
    [][(pc = "preprocess" /\ IsOp(Token, "Else") /\ cstack = <<>>)
            => /\ pc' = "compile_failed"
               /\ result'.err = "CompileError"
               /\ result'.at # <<>>]_vars

\* the instruction at ip needs more operands than the stack holds
Underflow ==
    /\ pc = "execute"
    /\ ~is_at_end
    /\ \/ opcode \in ArithOps \cup CompareOps /\ Len(stack) < 2
       \/ opcode \in {"If", "Dump"} /\ stack = <<>>

(***************************************************************************)
(* C27.  An instruction that needs more operands than the stack holds ends *)
(* the execution in a crash: nothing is pushed (what is left of the stack  *)
(* is a prefix of what it was), and nothing happens after the crash, so no *)
(* later instruction runs and no default value stands in for the operand.  *)
(***************************************************************************)
C27_UnderflowIsFatal ==
    [][/\ Underflow
            => /\ pc' = "vm_panic"
               /\ result'.err = "panic"
               /\ Len(stack') <= Len(stack)
               /\ stack' = SubSeq(stack, 1, Len(stack'))
               /\ executed' = executed \cup {ip}
       /\ pc # "vm_panic"]_vars

\* a binary instruction has found a single value on the stack, and has crashed
C27_Witness ==
    /\ pc = "vm_panic"
    /\ last.op \in ArithOps \cup CompareOps
    /\ last.at = 9
    /\ executed = {0, 9}
    /\ OpCodeFrom(vm_bytes[1]) = "Push"
    /\ stack = <<>>

\* the offset the disassembler hook of execute leaves for the instruction at ip
HookOffset ==
    disassemble_instruction([bytes |-> vm_bytes, constants |-> vm_constants],
                            opcode, ip, endian).offset

\* an iteration of the loop of execute that ends without a fault and without
\* a jump taken
StraightStep ==
    /\ pc = "execute"
    /\ ~is_at_end
    /\ pc' \in {"execute", "finished"}
    /\ ~last'.jumped

(***************************************************************************)
(* C28.  For each instruction the VM executes without taking a jump, the   *)
(* disassembler moves its offset by as many bytes as the VM's fetch has    *)
(* moved ip: 9 for Push, If and Else, 1 for every other instruction.       *)
(***************************************************************************)
C28_SameAdvance ==
    [][StraightStep
            => /\ HookOffset - ip = ip' - ip
               /\ ip' - ip = (IF opcode \in {"Push", "If", "Else"} THEN 9 ELSE 1)]_vars

\* an If has continued into its body, and an Else has been passed without a jump
C28_Witness ==
    /\ pc = "execute"
    /\ last.op = "Else"
    /\ ~last.jumped
    /\ ip = last.at + 9
    /\ \E a \in executed : OpCodeFrom(vm_bytes[a + 1]) = "Push"
    /\ \E a \in executed : OpCodeFrom(vm_bytes[a + 1]) = "Dump"

(***************************************************************************)
(* C29.  A compilation that has failed with a ParseError or a CompileError *)
(* has left the output file as it was: the file changes in one step only,  *)
(* the write at the end of compile, taken when the tokens hold no Error    *)
(* token and no unresolved target and the instructions have been emitted.  *)
(***************************************************************************)
C29_FailedCompileWritesNothing ==
    /\ [](result.err \in {"ParseError", "CompileError"} => file = NoFile)
    /\ [][file' # file
            => /\ pc = "write"
               /\ pc' = "compiled"
               /\ ErrorsFrom(1) = <<>>
               /\ Unresolved = {}
               /\ Token.typ3 = "Eof"
               /\ byte_code.bytes = EmitTokens(NoByteCode, tokens, endian).bytes
               /\ file'.bytes = byte_code'.bytes]_vars

\* verification has rejected a program after the first pass rewrote a token
C29_Witness ==
    /\ pc = "compile_failed"
    /\ result.err = "CompileError"
    /\ Unresolved # {}
    /\ tokens # src
    /\ file = NoFile

(***************************************************************************)
(* C30.  Execution leaves the loaded instruction bytes and the constant    *)
(* pool as load_binary produced them (for a compiled file: the emitted     *)
(* instruction section and the emitted pool): a step of execute changes    *)
(* the stack, ip and jmp_to_end only (and what it returns), and a Push     *)
(* puts on the stack a copy of the pool entry, which stays in the pool.    *)
(***************************************************************************)
C30_ExecuteKeepsByteCode ==
    /\ [](pc \in {"loaded", "execute", "finished", "vm_failed"}
            => /\ vm_bytes = SubSeq(file.bytes, 9, 8 + HaltOffset + 1)
               /\ vm_constants = byte_code.constants)
    /\ [][(pc = "loaded" \/ pc = "execute")
            => /\ vm_bytes' = vm_bytes
               /\ vm_constants' = vm_constants
               /\ UNCHANGED <<src, lexer_vars, endian, build, compiler_vars, constant_bytes>>]_vars
    /\ [][(Fetching({"Push"}) /\ pc' = "execute")
            => LET constant_index == usize_from_ne_bytes(Operand, endian)
               IN  /\ stack' = Append(stack, vm_constants[constant_index + 1])
                   /\ vm_constants'[constant_index + 1] = Top(stack')]_vars

\* an execution that pushed pool values, took the body of an If and ran to its end
C30_Witness ==
    /\ pc = "finished"
    /\ jmp_to_end
    /\ Cardinality(executed) >= 4
    /\ Len(vm_constants) >= 2
    /\ \E a \in executed : OpCodeFrom(vm_bytes[a + 1]) = "Push"
    /\ vm_constants = byte_code.constants

\* every character of the source is ASCII
IsAscii == \A i \in 1..Len(chars) : chars[i] < 128

(***************************************************************************)
(* C31.  scan_tokens returns for every source text: each iteration of its  *)
(* loop moves the cursor forward and either goes on scanning or returns    *)
(* the tokens, and it never crashes, whatever the length of a run of       *)
(* digits.  (Stated for ASCII sources; for the others see C19.)            *)
(***************************************************************************)
C31_ScanTotal ==
    [][(pc = "scan" /\ IsAscii)
            => /\ pc' \in {"scan", "scanned"}
               /\ pc' = "scan" => cursor' > cursor]_vars

====
